---- MODULE Spec2Model ----
(***************************************************************************)
(* Sharenote planner: the Streamlit pages of src/ and the sharenotelib     *)
(* functions they call (label codec, zbits engine, difficulty arithmetic,  *)
(* nBits codec, hashrate conversion).                                      *)
(*                                                                         *)
(* Number representation.  A continuous zbits value is an integer number   *)
(* of milli-zbits (MILLI units per zbit, so one cent is MILLI / 100        *)
(* units).  A positive real that is only multiplied, divided and compared  *)
(* (a hashrate, a reliability multiplier, a window) is held as its base-2  *)
(* logarithm in milli-zbits: v stands for the real 2^(v / MILLI).  A real  *)
(* that is added or subtracted (a difficulty 2^zbits, an nBits target) is  *)
(* a binary float [e, m] standing for 2^e * m / ONE with ONE <= m < 2 ONE. *)
(***************************************************************************)
EXTENDS Integers, Sequences, FiniteSets, TLC

VARIABLES
    op,             \* the operation that ran last
    args,           \* its inputs
    out,            \* what it returned or raised
    LAB_SECONDS,    \* Arithmetic_Lab._LAB_SECONDS
    LAB_RELIABILITY, \* Arithmetic_Lab._LAB_RELIABILITY (a level id, or "None")
    runs            \* the runs of Arithmetic_Lab.main(): position and locals

vars == <<op, args, out, LAB_SECONDS, LAB_RELIABILITY, runs>>

(***************************************************************************)
(* Program constants.                                                      *)
(***************************************************************************)
MIN_ZEROS == 1
MAX_ZEROS == 256
MIN_CENTZ == 0
MAX_CENTZ == 99
DEFAULT_TARGET_SECS == 5

(***************************************************************************)
(* Bounds of the model.                                                    *)
(***************************************************************************)
\* Widest run of blanks put around a label handed to ensure_note.
MaxPad == 1
\* Longest free-form text handed to ensure_note.
MaxTextLen == 4
\* How far past MIN_ZEROS / MAX_ZEROS the integer inputs of
\* note_from_components range on each side.
ZMargin == 2
\* Width, in zbits, of the windows of continuous zbits values explored at
\* the low and at the high end of the label range.
ZbitsSpan == 2
\* Windows from 1 to MaxSeconds seconds are explored, and the default one.
MaxSeconds == 2
\* How far, in milli-zbits, the hashrates explored reach below and above
\* the band of a label.
BandMargin == 2
\* Longest sequence of notes handed to combine_notes_serial.
MaxNotes == 3
\* scale_note is tried on the factors num / den with num from -1 to
\* MaxFactorNum and den from 1 to MaxFactorDen.
MaxFactorNum == 8
MaxFactorDen == 4
MaxNbitsText == 2

(***************************************************************************)
(* Results: a call returns a value or raises one of the error kinds.       *)
(***************************************************************************)
Note(z, cents) == [z |-> z, cents |-> cents]
OkNote(n) == [kind |-> "note", note |-> n]
Err(e) == [kind |-> "error", err |-> e]
NoResult == [kind |-> "none"]

\* Two sessions may run Arithmetic_Lab.main() at once.
Runs == {"first", "second"}
Off == [pc |-> "off"]

IsNote(r) == r.kind = "note"
IsErr(r, e) == r.kind = "error" /\ r.err = e

(***************************************************************************)
(* Text: a string is a sequence of one-character strings.                  *)
(***************************************************************************)
Digits == <<"0", "1", "2", "3", "4", "5", "6", "7", "8", "9">>
DigitSet == {Digits[i] : i \in 1..10}
IsDigit(ch) == ch \in DigitSet
DigitValue(ch) == (CHOOSE i \in 1..10 : Digits[i] = ch) - 1
IsSpace(ch) == ch = " "

RECURSIVE ToDecimal(_)
\* str(n) for n >= 0.
ToDecimal(n) ==
    IF n < 10 THEN <<Digits[n + 1]>>
    ELSE ToDecimal(n \div 10) \o <<Digits[(n % 10) + 1]>>

RECURSIVE ParseDecimal(_)
\* int(s) for a non-empty string of digits.
ParseDecimal(s) ==
    IF Len(s) = 1 THEN DigitValue(s[1])
    ELSE 10 * ParseDecimal(SubSeq(s, 1, Len(s) - 1)) + DigitValue(s[Len(s)])

RECURSIVE LStrip(_)
LStrip(s) ==
    IF s # <<>> /\ IsSpace(s[1]) THEN LStrip(Tail(s)) ELSE s

RECURSIVE RStrip(_)
RStrip(s) ==
    IF s # <<>> /\ IsSpace(s[Len(s)]) THEN RStrip(SubSeq(s, 1, Len(s) - 1)) ELSE s

\* str.strip()
Strip(s) == RStrip(LStrip(s))

RECURSIVE DigitRun(_, _)
\* Number of digits s carries from position i on.
DigitRun(s, i) ==
    IF i <= Len(s) /\ IsDigit(s[i]) THEN 1 + DigitRun(s, i + 1) ELSE 0

(***************************************************************************)
(* Label codec (sharenotelib).                                             *)
(***************************************************************************)
\* Sharenote.label: "{z}Z{cents:02d}".
Label(n) ==
    ToDecimal(n.z) \o <<"Z">>
        \o (IF n.cents < 10 THEN <<"0">> ELSE <<>>) \o ToDecimal(n.cents)

\* CENT_ZBIT_STEP (0.01 zbit) in milli-zbits, and one zbit.
CENT_ZBIT_STEP == 10
MILLI == (MAX_CENTZ + 1) * CENT_ZBIT_STEP

\* Sharenote.zbits, in milli-zbits.
ZbitsOf(n) == n.z * MILLI + n.cents * CENT_ZBIT_STEP

\* note_from_components letting z one past MAX_ZEROS through.
ComponentsOffByOne(z, cents) ==
    IF z < MIN_ZEROS \/ z > MAX_ZEROS + 1 \/ cents < MIN_CENTZ \/ cents > MAX_CENTZ
    THEN Err("OutOfRange")
    ELSE OkNote(Note(z, cents))

note_from_components(z, cents) ==
    IF z < MIN_ZEROS \/ z > MAX_ZEROS \/ cents < MIN_CENTZ \/ cents > MAX_CENTZ
    THEN Err("OutOfRange")
    ELSE OkNote(Note(z, cents))

\* Scans <digits> Z <two digits> left to right over the trimmed text.
ensure_note(text) ==
    LET s == Strip(text)
        k == DigitRun(s, 1)
    IN IF k = 0 THEN Err("InvalidLabel")
       ELSE IF k + 1 > Len(s) \/ s[k + 1] \notin {"Z", "z"} THEN Err("InvalidLabel")
       ELSE IF DigitRun(s, k + 2) # 2 \/ Len(s) # k + 3 THEN Err("InvalidLabel")
       ELSE note_from_components(ParseDecimal(SubSeq(s, 1, k)),
                                 ParseDecimal(SubSeq(s, k + 2, k + 3)))

(***************************************************************************)
(* Double-precision 2^x and log2, to 24 significant bits.                  *)
(***************************************************************************)
\* Bits of mantissa kept after the leading one; the float 1.0 has
\* mantissa ONE.
MantissaBits == 23
ONE == 2^MantissaBits

\* POW2[i + 1] = 2^(i / 1000) * ONE to the nearest integer, i in 0..999.
POW2 == <<
    8388608, 8394425, 8400245, 8406070, 8411898, 8417731, 8423568, 8429409, 8435254, 8441102,
    8446955, 8452812, 8458673, 8464539, 8470408, 8476281, 8482158, 8488040, 8493925, 8499815,
    8505709, 8511606, 8517508, 8523414, 8529324, 8535238, 8541157, 8547079, 8553005, 8558936,
    8564870, 8570809, 8576752, 8582699, 8588650, 8594606, 8600565, 8606528, 8612496, 8618468,
    8624444, 8630424, 8636408, 8642397, 8648389, 8654386, 8660387, 8666392, 8672401, 8678414,
    8684432, 8690453, 8696479, 8702509, 8708543, 8714582, 8720624, 8726671, 8732722, 8738777,
    8744837, 8750900, 8756968, 8763040, 8769116, 8775196, 8781281, 8787370, 8793463, 8799560,
    8805662, 8811768, 8817877, 8823992, 8830110, 8836233, 8842360, 8848491, 8854626, 8860766,
    8866910, 8873058, 8879211, 8885367, 8891528, 8897694, 8903863, 8910037, 8916215, 8922398,
    8928584, 8934775, 8940970, 8947170, 8953374, 8959582, 8965794, 8972011, 8978232, 8984458,
    8990687, 8996921, 9003160, 9009403, 9015650, 9021901, 9028157, 9034417, 9040681, 9046950,
    9053223, 9059500, 9065782, 9072068, 9078358, 9084653, 9090952, 9097256, 9103564, 9109876,
    9116193, 9122514, 9128839, 9135169, 9141503, 9147842, 9154185, 9160532, 9166884, 9173240,
    9179601, 9185966, 9192335, 9198709, 9205087, 9211470, 9217857, 9224249, 9230645, 9237045,
    9243450, 9249859, 9256273, 9262691, 9269114, 9275541, 9281973, 9288409, 9294849, 9301294,
    9307743, 9314197, 9320656, 9327118, 9333586, 9340057, 9346534, 9353015, 9359500, 9365990,
    9372484, 9378983, 9385486, 9391994, 9398506, 9405023, 9411544, 9418070, 9424600, 9431135,
    9437675, 9444219, 9450767, 9457320, 9463878, 9470440, 9477007, 9483578, 9490154, 9496734,
    9503319, 9509908, 9516502, 9523101, 9529704, 9536312, 9542924, 9549541, 9556163, 9562789,
    9569420, 9576055, 9582695, 9589339, 9595989, 9602642, 9609301, 9615964, 9622631, 9629303,
    9635980, 9642662, 9649348, 9656039, 9662734, 9669434, 9676139, 9682848, 9689562, 9696280,
    9703004, 9709732, 9716464, 9723202, 9729944, 9736690, 9743441, 9750197, 9756958, 9763723,
    9770493, 9777268, 9784048, 9790832, 9797621, 9804414, 9811212, 9818015, 9824823, 9831636,
    9838453, 9845274, 9852101, 9858932, 9865768, 9872609, 9879455, 9886305, 9893160, 9900020,
    9906884, 9913754, 9920628, 9927507, 9934390, 9941279, 9948172, 9955070, 9961973, 9968880,
    9975792, 9982709, 9989631, 9996558, 10003489, 10010426, 10017367, 10024313, 10031264, 10038219,
    10045179, 10052145, 10059115, 10066090, 10073069, 10080054, 10087043, 10094037, 10101036, 10108040,
    10115049, 10122063, 10129081, 10136105, 10143133, 10150166, 10157204, 10164247, 10171295, 10178347,
    10185405, 10192467, 10199535, 10206607, 10213684, 10220766, 10227853, 10234945, 10242042, 10249143,
    10256250, 10263362, 10270478, 10277599, 10284726, 10291857, 10298993, 10306135, 10313281, 10320432,
    10327588, 10334749, 10341915, 10349086, 10356262, 10363443, 10370629, 10377819, 10385015, 10392216,
    10399422, 10406633, 10413849, 10421069, 10428295, 10435526, 10442762, 10450003, 10457249, 10464500,
    10471756, 10479017, 10486283, 10493554, 10500830, 10508111, 10515397, 10522688, 10529985, 10537286,
    10544592, 10551904, 10559220, 10566542, 10573869, 10581201, 10588537, 10595879, 10603227, 10610579,
    10617936, 10625298, 10632666, 10640038, 10647416, 10654799, 10662187, 10669580, 10676978, 10684381,
    10691789, 10699203, 10706622, 10714046, 10721475, 10728909, 10736348, 10743792, 10751242, 10758697,
    10766157, 10773622, 10781092, 10788568, 10796048, 10803534, 10811025, 10818521, 10826023, 10833529,
    10841041, 10848558, 10856081, 10863608, 10871141, 10878679, 10886222, 10893770, 10901324, 10908883,
    10916447, 10924016, 10931591, 10939170, 10946756, 10954346, 10961941, 10969542, 10977148, 10984760,
    10992377, 10999999, 11007626, 11015258, 11022896, 11030539, 11038188, 11045842, 11053501, 11061165,
    11068835, 11076510, 11084190, 11091876, 11099567, 11107263, 11114964, 11122671, 11130384, 11138101,
    11145824, 11153553, 11161287, 11169026, 11176770, 11184520, 11192275, 11200036, 11207802, 11215573,
    11223350, 11231132, 11238919, 11246712, 11254511, 11262314, 11270124, 11277938, 11285758, 11293584,
    11301414, 11309251, 11317092, 11324939, 11332792, 11340650, 11348513, 11356382, 11364257, 11372137,
    11380022, 11387913, 11395809, 11403711, 11411618, 11419530, 11427449, 11435372, 11443301, 11451236,
    11459176, 11467122, 11475073, 11483030, 11490992, 11498960, 11506933, 11514912, 11522896, 11530886,
    11538881, 11546882, 11554888, 11562900, 11570918, 11578941, 11586970, 11595004, 11603044, 11611089,
    11619140, 11627197, 11635259, 11643327, 11651400, 11659479, 11667564, 11675654, 11683750, 11691851,
    11699958, 11708070, 11716189, 11724313, 11732442, 11740577, 11748718, 11756864, 11765016, 11773174,
    11781338, 11789507, 11797681, 11805862, 11814048, 11822239, 11830437, 11838640, 11846849, 11855063,
    11863283, 11871509, 11879741, 11887978, 11896221, 11904470, 11912724, 11920984, 11929250, 11937522,
    11945799, 11954082, 11962371, 11970665, 11978966, 11987272, 11995583, 12003901, 12012224, 12020554,
    12028888, 12037229, 12045576, 12053928, 12062286, 12070650, 12079019, 12087395, 12095776, 12104163,
    12112556, 12120955, 12129359, 12137770, 12146186, 12154608, 12163036, 12171469, 12179909, 12188354,
    12196805, 12205263, 12213726, 12222194, 12230669, 12239150, 12247636, 12256129, 12264627, 12273131,
    12281641, 12290157, 12298679, 12307207, 12315740, 12324280, 12332825, 12341377, 12349934, 12358497,
    12367067, 12375642, 12384223, 12392810, 12401403, 12410002, 12418607, 12427218, 12435835, 12444457,
    12453086, 12461721, 12470362, 12479009, 12487661, 12496320, 12504985, 12513656, 12522333, 12531016,
    12539704, 12548399, 12557100, 12565807, 12574520, 12583239, 12591964, 12600695, 12609432, 12618176,
    12626925, 12635680, 12644442, 12653209, 12661983, 12670762, 12679548, 12688340, 12697138, 12705942,
    12714752, 12723568, 12732391, 12741219, 12750054, 12758895, 12767741, 12776594, 12785454, 12794319,
    12803190, 12812068, 12820952, 12829841, 12838737, 12847640, 12856548, 12865463, 12874383, 12883310,
    12892243, 12901183, 12910128, 12919080, 12928038, 12937002, 12945972, 12954949, 12963932, 12972921,
    12981916, 12990918, 12999925, 13008939, 13017960, 13026986, 13036019, 13045058, 13054103, 13063155,
    13072212, 13081277, 13090347, 13099424, 13108507, 13117596, 13126691, 13135793, 13144902, 13154016,
    13163137, 13172264, 13181398, 13190537, 13199683, 13208836, 13217995, 13227160, 13236332, 13245509,
    13254694, 13263884, 13273081, 13282285, 13291495, 13300711, 13309933, 13319162, 13328398, 13337639,
    13346887, 13356142, 13365403, 13374670, 13383944, 13393224, 13402511, 13411804, 13421104, 13430410,
    13439722, 13449041, 13458367, 13467699, 13477037, 13486382, 13495733, 13505091, 13514455, 13523826,
    13533203, 13542587, 13551977, 13561374, 13570777, 13580187, 13589603, 13599026, 13608455, 13617891,
    13627334, 13636783, 13646238, 13655701, 13665169, 13674645, 13684126, 13693615, 13703110, 13712611,
    13722120, 13731634, 13741156, 13750684, 13760218, 13769759, 13779307, 13788861, 13798422, 13807990,
    13817564, 13827145, 13836733, 13846327, 13855928, 13865536, 13875150, 13884771, 13894398, 13904032,
    13913673, 13923321, 13932975, 13942636, 13952304, 13961978, 13971659, 13981347, 13991041, 14000742,
    14010450, 14020165, 14029886, 14039615, 14049350, 14059091, 14068840, 14078595, 14088357, 14098125,
    14107901, 14117683, 14127472, 14137268, 14147070, 14156880, 14166696, 14176519, 14186349, 14196186,
    14206029, 14215879, 14225736, 14235600, 14245471, 14255349, 14265233, 14275125, 14285023, 14294928,
    14304840, 14314759, 14324684, 14334617, 14344556, 14354503, 14364456, 14374416, 14384383, 14394357,
    14404338, 14414326, 14424320, 14434322, 14444330, 14454346, 14464368, 14474398, 14484434, 14494478,
    14504528, 14514585, 14524649, 14534721, 14544799, 14554884, 14564976, 14575075, 14585181, 14595295,
    14605415, 14615542, 14625676, 14635818, 14645966, 14656121, 14666284, 14676453, 14686629, 14696813,
    14707004, 14717201, 14727406, 14737618, 14747837, 14758063, 14768296, 14778536, 14788783, 14799037,
    14809299, 14819567, 14829843, 14840126, 14850416, 14860713, 14871017, 14881329, 14891647, 14901973,
    14912306, 14922646, 14932993, 14943347, 14953709, 14964077, 14974453, 14984836, 14995227, 15005624,
    15016029, 15026441, 15036860, 15047286, 15057720, 15068161, 15078609, 15089064, 15099527, 15109997,
    15120474, 15130958, 15141450, 15151949, 15162455, 15172968, 15183489, 15194017, 15204552, 15215095,
    15225645, 15236202, 15246767, 15257339, 15267918, 15278505, 15289098, 15299700, 15310308, 15320924,
    15331548, 15342178, 15352816, 15363462, 15374115, 15384775, 15395443, 15406118, 15416800, 15427490,
    15438187, 15448892, 15459604, 15470323, 15481050, 15491784, 15502526, 15513276, 15524032, 15534796,
    15545568, 15556347, 15567134, 15577928, 15588729, 15599538, 15610355, 15621179, 15632010, 15642849,
    15653696, 15664550, 15675412, 15686281, 15697158, 15708042, 15718933, 15729833, 15740740, 15751654,
    15762576, 15773506, 15784443, 15795388, 15806340, 15817300, 15828267, 15839242, 15850225, 15861216,
    15872213, 15883219, 15894232, 15905253, 15916282, 15927318, 15938362, 15949413, 15960472, 15971539,
    15982613, 15993696, 16004785, 16015883, 16026988, 16038101, 16049222, 16060350, 16071486, 16082630,
    16093781, 16104941, 16116108, 16127282, 16138465, 16149655, 16160853, 16172059, 16183272, 16194493,
    16205722, 16216959, 16228204, 16239456, 16250717, 16261985, 16273260, 16284544, 16295836, 16307135,
    16318442, 16329757, 16341080, 16352411, 16363749, 16375096, 16386450, 16397812, 16409182, 16420560,
    16431946, 16443340, 16454741, 16466151, 16477568, 16488993, 16500427, 16511868, 16523317, 16534774,
    16546239, 16557712, 16569193, 16580682, 16592179, 16603683, 16615196, 16626717, 16638246, 16649783,
    16661327, 16672880, 16684441, 16696010, 16707586, 16719171, 16730764, 16742365, 16753974, 16765591
>>

Float(e, m) == [e |-> e, m |-> m]

RECURSIVE Normalize(_, _)
\* The float 2^e * m / ONE for m > 0, its mantissa brought into [ONE, 2 ONE).
Normalize(e, m) ==
    IF m >= 2 * ONE THEN Normalize(e + 1, m \div 2)
    ELSE IF m < ONE THEN Normalize(e - 1, m * 2)
    ELSE Float(e, m)

\* float(n) for an integer n >= 1.
FromInt(n) == Normalize(MantissaBits, n)

\* 2^(zm / MILLI) for zm >= 0 milli-zbits.
Pow2(zm) == Float(zm \div MILLI, POW2[(zm % MILLI) + 1])

RECURSIVE FloorIndex(_, _, _)
\* The largest i in lo..hi with POW2[i + 1] <= m (POW2[lo + 1] <= m given).
FloorIndex(m, lo, hi) ==
    IF lo = hi THEN lo
    ELSE LET mid == (lo + hi + 1) \div 2
         IN IF POW2[mid + 1] <= m THEN FloorIndex(m, mid, hi)
            ELSE FloorIndex(m, lo, mid - 1)

\* log2 of a float, in milli-zbits, rounded down.
Log2Milli(f) == f.e * MILLI + FloorIndex(f.m, 0, MILLI - 1)

RECURSIVE Halve(_, _)
\* m / 2^k, rounded down.
Halve(m, k) == IF k = 0 \/ m = 0 THEN m ELSE Halve(m \div 2, k - 1)

\* a + b
FloatAdd(a, b) ==
    IF a.e >= b.e THEN Normalize(a.e, a.m + Halve(b.m, a.e - b.e))
    ELSE Normalize(b.e, b.m + Halve(a.m, b.e - a.e))

\* a > b
FloatGreater(a, b) == a.e > b.e \/ (a.e = b.e /\ a.m > b.m)

\* a - b for a > b.
FloatSub(a, b) == Normalize(a.e, a.m - Halve(b.m, a.e - b.e))

(***************************************************************************)
(* ZBits engine (sharenotelib).                                            *)
(***************************************************************************)
\* round(x) of a fraction of a zbit given in milli-zbits, in cents.  The
\* tie (exactly half a cent) goes up.
RoundCents(frac) == (frac + CENT_ZBIT_STEP \div 2) \div CENT_ZBIT_STEP

\* zm: the continuous zbits value, in milli-zbits.
note_from_zbits(zm) ==
    IF zm < 0 THEN Err("OutOfRange")
    ELSE LET z == zm \div MILLI
             cents == RoundCents(zm % MILLI)
         IN IF cents > MAX_CENTZ THEN note_from_components(z + 1, 0)
            ELSE note_from_components(z, cents)

(***************************************************************************)
(* Reliability catalog (sharenotelib): k in millionths.                    *)
(***************************************************************************)
MICRO == 10^6

ReliabilityLevels == <<
    [id |-> "mean",           label |-> "On average",             k |-> MICRO],
    [id |-> "usually_90",     label |-> "Usually (90%)",          k |-> 2302585],
    [id |-> "often_95",       label |-> "Often (95%)",            k |-> 2995732],
    [id |-> "very_likely_99", label |-> "Very likely (99%)",      k |-> 4605170],
    [id |-> "almost_999",     label |-> "Almost certain (99.9%)", k |-> 6907755]
>>

get_reliability_levels == ReliabilityLevels

LevelIds == {ReliabilityLevels[i].id : i \in DOMAIN ReliabilityLevels}
LevelOf(id) ==
    ReliabilityLevels[CHOOSE i \in DOMAIN ReliabilityLevels : ReliabilityLevels[i].id = id]

\* log2 of a multiplier given in millionths, in milli-zbits.
LogOfMicro == Log2Milli(FromInt(MICRO))
LogMultiplier(k) == Log2Milli(FromInt(k)) - LogOfMicro

\* log2 of each catalog multiplier and of the usual windows, computed once.
LogOfLevel ==
    [i \in DOMAIN ReliabilityLevels |-> LogMultiplier(ReliabilityLevels[i].k)]
LogOfSeconds == [t \in 1..60 |-> Log2Milli(FromInt(t))]
LogSeconds(t) == IF t \in DOMAIN LogOfSeconds THEN LogOfSeconds[t] ELSE Log2Milli(FromInt(t))
LogK(k) ==
    IF \E i \in DOMAIN ReliabilityLevels : ReliabilityLevels[i].k = k
    THEN LogOfLevel[CHOOSE i \in DOMAIN ReliabilityLevels : ReliabilityLevels[i].k = k]
    ELSE LogMultiplier(k)

(***************************************************************************)
(* Hashrate conversion (sharenotelib).  A hashrate is held as its log2 in  *)
(* milli-zbits; a window is an integer number of seconds.                  *)
(***************************************************************************)
Measurement(v) == [kind |-> "measurement", value |-> v]
Range(low, high) == [kind |-> "range", low |-> low, high |-> high]

\* k * 2^zbits / t
HashrateFor(zm, t, k) == LogK(k) + zm - LogSeconds(t)

required_hashrate(note, t, reliability) ==
    IF reliability \notin LevelIds THEN Err("InvalidReliabilityId")
    ELSE IF t <= 0 THEN Err("NonPositiveWindow")
    ELSE Measurement(HashrateFor(ZbitsOf(note), t, LevelOf(reliability).k))

required_hashrate_mean(note, t) ==
    IF t <= 0 THEN Err("NonPositiveWindow")
    ELSE Measurement(HashrateFor(ZbitsOf(note), t, MICRO))

\* A value in milli-zbits brought down to the cent step below it.
FloorToCent(zm) == zm - (zm % CENT_ZBIT_STEP)

\* hps: log2 of the hashrate in milli-zbits.
note_from_hashrate(hps, t, reliability) ==
    IF reliability \notin LevelIds THEN Err("InvalidReliabilityId")
    ELSE IF t <= 0 THEN Err("NonPositiveWindow")
    ELSE LET zbits_max == hps + LogSeconds(t) - LogK(LevelOf(reliability).k)
         IN IF zbits_max < MIN_ZEROS * MILLI THEN Err("HashrateTooLow")
            ELSE note_from_zbits(FloorToCent(zbits_max))

\* how: [reliability |-> id] or [multiplier |-> k in millionths].
hashrate_range_for_note(note, t, how) ==
    IF "reliability" \in DOMAIN how /\ how.reliability \notin LevelIds
    THEN Err("InvalidReliabilityId")
    ELSE IF t <= 0 THEN Err("NonPositiveWindow")
    ELSE LET k == IF "reliability" \in DOMAIN how
                  THEN LevelOf(how.reliability).k ELSE how.multiplier
         IN Range(Measurement(HashrateFor(ZbitsOf(note), t, k)),
                  Measurement(HashrateFor(ZbitsOf(note) + CENT_ZBIT_STEP, t, k)))

(***************************************************************************)
(* Difficulty arithmetic (sharenotelib), on the difficulty D = 2^zbits.    *)
(***************************************************************************)
Difficulty(note) == Pow2(ZbitsOf(note))

RECURSIVE SumDifficulty(_, _)
\* acc + D_1 + ... + D_n, added left to right.
SumDifficulty(acc, notes) ==
    IF notes = <<>> THEN acc
    ELSE SumDifficulty(FloatAdd(acc, Difficulty(Head(notes))), Tail(notes))

\* The spec names no error kind for the empty sequence.
combine_notes_serial(notes) ==
    IF notes = <<>> THEN Err("EmptySequence")
    ELSE note_from_zbits(
             Log2Milli(SumDifficulty(Difficulty(Head(notes)), Tail(notes))))

note_difference(a, b) ==
    IF ~FloatGreater(Difficulty(a), Difficulty(b)) THEN Err("NonPositiveDifference")
    ELSE note_from_zbits(Log2Milli(FloatSub(Difficulty(a), Difficulty(b))))

\* The raw zbits of the ratio D_a / D_b, in milli-zbits.
divide_notes(a, b) == ZbitsOf(a) - ZbitsOf(b)

\* log2 of the integers a factor is made of, computed once.
LogOfInt == [n \in 1..1000 |-> Log2Milli(FromInt(n))]
LogInt(n) == IF n \in DOMAIN LogOfInt THEN LogOfInt[n] ELSE Log2Milli(FromInt(n))

\* A factor is the ratio num / den of two integers, den >= 1.
Factor(num, den) == [num |-> num, den |-> den]
LogFactor(factor) == LogInt(factor.num) - LogInt(factor.den)

scale_note(note, factor) ==
    IF factor.num <= 0 THEN Err("NonPositiveFactor")
    ELSE note_from_zbits(ZbitsOf(note) + LogFactor(factor))

(***************************************************************************)
(* Arithmetic Lab helpers (src/pages/Arithmetic_Lab.py).                   *)
(***************************************************************************)
None == [kind |-> "None"]

\* max(1, int(_LAB_SECONDS or DEFAULT_TARGET_SECS))
_lab_seconds ==
    LET s == IF LAB_SECONDS = 0 THEN DEFAULT_TARGET_SECS ELSE LAB_SECONDS
    IN IF s < 1 THEN 1 ELSE s

\* _LAB_RELIABILITY or RELIABILITY_LEVELS[0]
_lab_reliability ==
    IF LAB_RELIABILITY = "None" THEN ReliabilityLevels[1] ELSE LevelOf(LAB_RELIABILITY)

\* The stats of a note, or the error required_hashrate raised.
_summarize_note(note) ==
    LET seconds == _lab_seconds
        level == _lab_reliability
        selected == required_hashrate(note, seconds, level.id)
    IN IF selected.kind = "error" THEN selected
       ELSE [kind |-> "stats", label |-> Label(note), zbits |-> ZbitsOf(note),
             seconds |-> seconds, selected_label |-> level.label,
             hashrate_value |-> selected.value]

_note_within_lab_limits(note) == MIN_ZEROS <= note.z /\ note.z <= MAX_ZEROS

\* _resolve with the lab-limit test inverted.
ResolveLimitInverted(note_str) ==
    LET parsed == ensure_note(Strip(note_str))
    IN IF Strip(note_str) = <<>> \/ parsed.kind = "error"
            \/ _note_within_lab_limits(parsed.note)
       THEN [kind |-> "resolved", note |-> None, stats |-> None, status |-> "rejected"]
       ELSE [kind |-> "resolved", note |-> parsed.note,
             stats |-> _summarize_note(parsed.note), status |-> "ok"]

\* (note, stats, status); an error of _summarize_note is not caught.
_resolve(note_str) ==
    LET trimmed == Strip(note_str)
        parsed == ensure_note(trimmed)
    IN IF trimmed = <<>>
       THEN [kind |-> "resolved", note |-> None, stats |-> None, status |-> "enter a label"]
       ELSE IF parsed.kind = "error"
       THEN [kind |-> "resolved", note |-> None, stats |-> None, status |-> parsed.err]
       ELSE IF ~_note_within_lab_limits(parsed.note)
       THEN [kind |-> "resolved", note |-> None, stats |-> None, status |-> "Z must stay between"]
       ELSE LET stats == _summarize_note(parsed.note)
            IN IF stats.kind = "error" THEN stats
               ELSE [kind |-> "resolved", note |-> parsed.note, stats |-> stats,
                     status |-> "ok"]

\* _maybe_note_from_zbits turning away every value below MIN_ZEROS.
MaybeNoteBelowMinRejected(zbits_value) ==
    IF zbits_value < MIN_ZEROS * MILLI THEN None
    ELSE LET r == note_from_zbits(zbits_value)
         IN IF r.kind = "error" THEN None ELSE r.note

\* None for a negative value or when note_from_zbits raises.
_maybe_note_from_zbits(zbits_value) ==
    IF zbits_value < 0 THEN None
    ELSE LET r == note_from_zbits(zbits_value)
         IN IF r.kind = "error" THEN None ELSE r.note

(***************************************************************************)
(* Inputs of the label codec.                                              *)
(***************************************************************************)
RECURSIVE Blanks(_)
Blanks(n) == IF n = 0 THEN <<>> ELSE <<" ">> \o Blanks(n - 1)

\* The label of (z, cents) as a user types it: blanks around it, Z or z.
Typed(z, cents, lead, trail, lower) ==
    LET canon == Label(Note(z, cents))
    IN Blanks(lead)
         \o [i \in 1..Len(canon) |-> IF lower /\ canon[i] = "Z" THEN "z" ELSE canon[i]]
         \o Blanks(trail)

TextAlphabet == {"0", "1", "9", "Z", "z", " ", "x", "-"}

RECURSIVE TextsOfLen(_)
TextsOfLen(n) ==
    IF n = 0 THEN {<<>>}
    ELSE {<<ch>> \o t : ch \in TextAlphabet, t \in TextsOfLen(n - 1)}

Texts == UNION {TextsOfLen(n) : n \in 0..MaxTextLen}

ComponentZ == (MIN_ZEROS - ZMargin)..(MAX_ZEROS + ZMargin)
ComponentCents == (MIN_CENTZ - ZMargin)..(MAX_CENTZ + ZMargin)
\* z and cents a label can spell: non-negative, cents of two digits.
LabelZ == 0..(MAX_ZEROS + ZMargin)
LabelCents == 0..99
\* The z around both bounds and where the label gains a digit.
TypedZ ==
    {z \in LabelZ : \/ z <= MIN_ZEROS + ZMargin
                    \/ z >= MAX_ZEROS - ZMargin
                    \/ z \in {9, 10, 99, 100}}

(***************************************************************************)
(* The label codec applied to drawn inputs.                                *)
(***************************************************************************)
InitIdle ==
    /\ op = "init"
    /\ args = <<>>
    /\ out = NoResult
    /\ LAB_SECONDS = DEFAULT_TARGET_SECS
    /\ LAB_RELIABILITY = "None"
    /\ runs = [r \in Runs |-> Off]

\* One call per behaviour: the inputs are drawn and the function is applied.
Idle == op = "init"

Call(name, a, r) ==
    /\ op' = name
    /\ args' = a
    /\ out' = r
    /\ UNCHANGED <<LAB_SECONDS, LAB_RELIABILITY, runs>>

NoteFromComponents ==
    Idle /\ \E z \in ComponentZ, cents \in ComponentCents :
        Call("note_from_components", [z |-> z, cents |-> cents],
             note_from_components(z, cents))

\* ensure_note on the canonical label of every (z, cents) a label can spell.
EnsureLabel ==
    Idle /\ \E z \in LabelZ, cents \in LabelCents :
        Call("ensure_label",
             [z |-> z, cents |-> cents, canonical |-> TRUE,
              text |-> Typed(z, cents, 0, 0, FALSE)],
             ensure_note(Typed(z, cents, 0, 0, FALSE)))

\* ensure_note on a label as typed: blanks around it, Z in either case.
EnsureTyped ==
    Idle /\ \E z \in TypedZ, cents \in LabelCents, lead \in 0..MaxPad,
            trail \in 0..MaxPad, lower \in BOOLEAN :
        Call("ensure_label",
             [z |-> z, cents |-> cents, canonical |-> lead = 0 /\ trail = 0 /\ ~lower,
              text |-> Typed(z, cents, lead, trail, lower)],
             ensure_note(Typed(z, cents, lead, trail, lower)))

\* ensure_note on any short text.
EnsureText ==
    Idle /\ \E text \in Texts :
        Call("ensure_text", [text |-> text], ensure_note(text))

\* The lab's _note_panel input handed to _resolve.
Resolve ==
    Idle /\ \E z \in TypedZ, cents \in LabelCents, lead \in 0..MaxPad :
        Call("_resolve",
             [z |-> z, cents |-> cents, text |-> Typed(z, cents, lead, 0, FALSE)],
             _resolve(Typed(z, cents, lead, 0, FALSE)))

NextLabel ==
    NoteFromComponents \/ EnsureLabel \/ EnsureTyped \/ EnsureText \/ Resolve

SpecLabel == InitIdle /\ [][NextLabel]_vars

(***************************************************************************)
(* Claims on the label codec.                                              *)
(***************************************************************************)
InRange(z, cents) ==
    /\ MIN_ZEROS <= z /\ z <= MAX_ZEROS
    /\ MIN_CENTZ <= cents /\ cents <= MAX_CENTZ

\* C1: for every valid (z, cents), parsing the canonical label
\* "{z}Z{cents:02d}" of note_from_components(z, cents) gives back an equal
\* note, through ensure_note and through the lab's _resolve.
C1_RoundTrip ==
    /\ (op = "ensure_label" /\ args.canonical /\ InRange(args.z, args.cents))
          => /\ args.text = Label(note_from_components(args.z, args.cents).note)
             /\ out = note_from_components(args.z, args.cents)
    /\ (op = "_resolve" /\ InRange(args.z, args.cents))
          => /\ out.kind = "resolved"
             /\ out.note = note_from_components(args.z, args.cents).note

C1_Witness ==
    /\ op = "ensure_label" /\ args.canonical
    /\ args.text = <<"2", "5", "6", "Z", "0", "7">>
    /\ out = OkNote(Note(256, 7))

\* The text with its leading and trailing blanks removed, said by position.
Trimmed(t) ==
    LET inked == {i \in 1..Len(t) : t[i] # " "}
    IN IF inked = {} THEN <<>>
       ELSE SubSeq(t, CHOOSE i \in inked : \A j \in inked : i <= j,
                      CHOOSE i \in inked : \A j \in inked : i >= j)

\* <digits> Z <exactly two digits>, Z in either case.
WellFormed(s) ==
    /\ Len(s) >= 4
    /\ \A i \in 1..(Len(s) - 3) : s[i] \in DigitSet
    /\ s[Len(s) - 2] \in {"Z", "z"}
    /\ s[Len(s) - 1] \in DigitSet /\ s[Len(s)] \in DigitSet

\* C2: note_from_components and ensure_note return a Sharenote exactly when
\* 1 <= z <= 256 and 0 <= cents <= 99 and fail OutOfRange otherwise;
\* ensure_note trims blanks, takes Z in either case and fails InvalidLabel
\* on every text that is not <digits>Z<two digits>; every Sharenote
\* returned is within the range.
C2_RangeAndLabelErrors ==
    /\ IsNote(out) => InRange(out.note.z, out.note.cents)
    /\ op = "note_from_components" =>
          IF InRange(args.z, args.cents)
          THEN out = OkNote(Note(args.z, args.cents))
          ELSE IsErr(out, "OutOfRange")
    /\ op = "ensure_label" =>
          IF InRange(args.z, args.cents)
          THEN out = OkNote(Note(args.z, args.cents))
          ELSE IsErr(out, "OutOfRange")
    /\ op = "ensure_text" =>
          LET s == Trimmed(args.text)
          IN IF ~WellFormed(s) THEN IsErr(out, "InvalidLabel")
             ELSE LET z == ParseDecimal(SubSeq(s, 1, Len(s) - 3))
                      cents == ParseDecimal(SubSeq(s, Len(s) - 1, Len(s)))
                  IN IF InRange(z, cents) THEN out = OkNote(Note(z, cents))
                     ELSE IsErr(out, "OutOfRange")

C2_Witness ==
    /\ op = "note_from_components" /\ args.z = MAX_ZEROS + 1 /\ args.cents = 0
    /\ IsErr(out, "OutOfRange")

(***************************************************************************)
(* The zbits engine applied to drawn inputs.                               *)
(***************************************************************************)
\* Continuous zbits values, in milli-zbits: from below zero up past the
\* first labels, and from below the last labels to past 256Z99.
ZbitsInputs ==
    ((0 - ZMargin)..(ZbitsSpan * MILLI))
        \cup (((MAX_ZEROS + 1 - ZbitsSpan) * MILLI)..((MAX_ZEROS + 1) * MILLI + ZMargin))

NoteFromZbits ==
    Idle /\ \E zm \in {v \in ZbitsInputs : v >= 0} :
        Call("note_from_zbits", [zbits |-> zm], note_from_zbits(zm))

MaybeNoteFromZbits ==
    Idle /\ \E zm \in ZbitsInputs :
        Call("_maybe_note_from_zbits", [zbits |-> zm], _maybe_note_from_zbits(zm))

NextZbits == NoteFromZbits \/ MaybeNoteFromZbits

SpecZbits == InitIdle /\ [][NextZbits]_vars

(***************************************************************************)
(* Claims on the zbits engine.                                             *)
(***************************************************************************)
\* A count q of cents as (z, cents).
CentsToNote(q) == Note(q \div (MAX_CENTZ + 1), q % (MAX_CENTZ + 1))

\* The counts of cents nearest to zm: one, or two at a tie.
NearestCents(zm) ==
    {q \in (zm \div CENT_ZBIT_STEP)..(zm \div CENT_ZBIT_STEP + 1) :
        2 * (q * CENT_ZBIT_STEP - zm) <= CENT_ZBIT_STEP
        /\ 2 * (zm - q * CENT_ZBIT_STEP) <= CENT_ZBIT_STEP}

\* The result required of note_from_zbits(zm) for zm >= 0.
Quantized(zm, r) ==
    IF IsNote(r)
    THEN /\ InRange(r.note.z, r.note.cents)
         /\ \E q \in NearestCents(zm) : r.note = CentsToNote(q)
         /\ 2 * (zm % MILLI) >= (2 * MAX_CENTZ + 1) * CENT_ZBIT_STEP
               => r.note = Note(zm \div MILLI + 1, 0)
    ELSE /\ IsErr(r, "OutOfRange")
         /\ \E q \in NearestCents(zm) : ~InRange(CentsToNote(q).z, CentsToNote(q).cents)

\* C3: for zbits >= 0 note_from_zbits returns z = floor(zbits) and cents =
\* round of the fraction in cents, (z + 1, 0) when the cents reach 100; the
\* note has 0 <= cents <= 99 and 1 <= z <= 256, and the call fails
\* OutOfRange when the quantized value is outside that box, never returning
\* a clamped note.  The lab's _maybe_note_from_zbits hands that note on and
\* returns None for a failure or a negative value.
C3_Quantization ==
    /\ op = "note_from_zbits" => Quantized(args.zbits, out)
    /\ op = "_maybe_note_from_zbits" =>
          IF args.zbits < 0 THEN out = None
          ELSE IF out = None THEN Quantized(args.zbits, Err("OutOfRange"))
          ELSE Quantized(args.zbits, OkNote(out))

C3_Witness ==
    /\ op = "note_from_zbits" /\ args.zbits = MILLI + MILLI - CENT_ZBIT_STEP \div 2
    /\ out = OkNote(Note(2, 0))

(***************************************************************************)
(* Planner (src/pages/Planner.py) and the single-page app (src/app.py).    *)
(* A hashrate the user enters is zero or positive: [pos, log].             *)
(***************************************************************************)
Positive(log) == [pos |-> TRUE, log |-> log]
ZeroRate == [pos |-> FALSE, log |-> 0]

\* _compute_best_note ignoring the level chosen and planning for the mean.
ComputeBestNoteForMean(hps, seconds, level) ==
    IF ~hps.pos
    THEN [kind |-> "best", note |-> None, error |-> "Enter a hashrate greater than 0"]
    ELSE LET r == note_from_hashrate(hps.log, seconds, ReliabilityLevels[1].id)
         IN IF r.kind = "error"
            THEN [kind |-> "best", note |-> None, error |-> r.err]
            ELSE [kind |-> "best", note |-> r.note, error |-> "None"]

\* (note, None) or (None, message).
_compute_best_note(hps, seconds, level) ==
    IF ~hps.pos
    THEN [kind |-> "best", note |-> None, error |-> "Enter a hashrate greater than 0"]
    ELSE LET r == note_from_hashrate(hps.log, seconds, level.id)
         IN IF r.kind = "error"
            THEN [kind |-> "best", note |-> None, error |-> r.err]
            ELSE [kind |-> "best", note |-> r.note, error |-> "None"]

\* planner_tab2 showing the mean band under the selected level's heading.
PlannerTab2MeanForSelected(zeros, cents, t_secs, selected_level) ==
    LET target == note_from_components(zeros, cents)
    IN IF target.kind = "error" THEN target
       ELSE [kind |-> "tab2", label |-> Label(target.note),
             mean_range |-> hashrate_range_for_note(target.note, t_secs, [multiplier |-> MICRO]),
             selected_range |->
                 hashrate_range_for_note(target.note, t_secs, [multiplier |-> MICRO]),
             table |-> [i \in DOMAIN ReliabilityLevels |->
                 hashrate_range_for_note(target.note, t_secs,
                                         [reliability |-> ReliabilityLevels[i].id])]]

\* Planner main, tab2: the bands of hashrate required for the target note.
planner_tab2(zeros, cents, t_secs, selected_level) ==
    LET target == note_from_components(zeros, cents)
    IN IF target.kind = "error" THEN target
       ELSE [kind |-> "tab2", label |-> Label(target.note),
             mean_range |-> hashrate_range_for_note(target.note, t_secs, [multiplier |-> MICRO]),
             selected_range |->
                 hashrate_range_for_note(target.note, t_secs,
                                         [reliability |-> selected_level.id]),
             table |-> [i \in DOMAIN ReliabilityLevels |->
                 hashrate_range_for_note(target.note, t_secs,
                                         [reliability |-> ReliabilityLevels[i].id])]]

\* app_tab2 filling every row of the table with the selected level.
AppTab2SelectedInEveryRow(zeros, cents, t_secs, selected_level) ==
    LET target == note_from_components(zeros, cents)
    IN IF target.kind = "error" THEN target
       ELSE [kind |-> "tab2", label |-> Label(target.note),
             req_mean |-> required_hashrate_mean(target.note, t_secs),
             req_chosen |-> required_hashrate(target.note, t_secs, selected_level.id),
             table |-> [i \in DOMAIN ReliabilityLevels |->
                 required_hashrate(target.note, t_secs, selected_level.id)]]

\* app.py, tab2: the hashrate required for the target note at every level.
app_tab2(zeros, cents, t_secs, selected_level) ==
    LET target == note_from_components(zeros, cents)
    IN IF target.kind = "error" THEN target
       ELSE [kind |-> "tab2", label |-> Label(target.note),
             req_mean |-> required_hashrate_mean(target.note, t_secs),
             req_chosen |-> required_hashrate(target.note, t_secs, selected_level.id),
             table |-> [i \in DOMAIN ReliabilityLevels |->
                 required_hashrate(target.note, t_secs, ReliabilityLevels[i].id)]]

(***************************************************************************)
(* The hashrate conversion applied to drawn inputs.                        *)
(***************************************************************************)
\* The z of the notes explored: at both ends of the range, and the default.
DefaultZ == 32
SampleZ ==
    {z \in MIN_ZEROS..MAX_ZEROS :
        z < MIN_ZEROS + ZbitsSpan \/ z > MAX_ZEROS - ZbitsSpan \/ z = DefaultZ}
SampleCents ==
    {c \in MIN_CENTZ..MAX_CENTZ :
        c <= MIN_CENTZ + ZMargin \/ c >= MAX_CENTZ - ZMargin \/ c = (MAX_CENTZ + 1) \div 2}
SampleNotes == {Note(z, c) : z \in SampleZ, c \in SampleCents}

SecondsSet == (1..MaxSeconds) \cup {DEFAULT_TARGET_SECS}
BadSeconds == (0 - 1)..0
BandOffsets == (0 - BandMargin)..(CENT_ZBIT_STEP + BandMargin)

RequiredHashrate ==
    Idle /\ \E note \in SampleNotes, t \in SecondsSet \cup BadSeconds,
            rel \in LevelIds \cup {"unknown"} :
        Call("required_hashrate", [note |-> note, t |-> t, reliability |-> rel],
             required_hashrate(note, t, rel))

\* note_from_hashrate on a hashrate at offset d from the low end of the
\* band of a note.
NoteFromHashrate ==
    Idle /\ \E note \in SampleNotes, t \in SecondsSet, rel \in LevelIds, d \in BandOffsets :
        LET rng == hashrate_range_for_note(note, t, [reliability |-> rel])
        IN Call("note_from_hashrate",
                [note |-> note, t |-> t, reliability |-> rel, offset |-> d,
                 hps |-> rng.low.value + d, range |-> rng],
                note_from_hashrate(rng.low.value + d, t, rel))

ComputeBestNote ==
    Idle /\ \E note \in SampleNotes, t \in SecondsSet, rel \in LevelIds, d \in BandOffsets,
            pos \in BOOLEAN :
        LET hps == IF pos THEN Positive(HashrateFor(ZbitsOf(note), t, LevelOf(rel).k) + d)
                   ELSE ZeroRate
        IN Call("_compute_best_note", [hps |-> hps, t |-> t, reliability |-> rel],
                _compute_best_note(hps, t, LevelOf(rel)))

\* The widgets keep zeros within MIN_ZEROS..MAX_ZEROS and cents within 0..99.
PlannerTab2 ==
    Idle /\ \E note \in SampleNotes, t \in SecondsSet, rel \in LevelIds :
        Call("planner_tab2", [note |-> note, t |-> t, reliability |-> rel],
             planner_tab2(note.z, note.cents, t, LevelOf(rel)))

AppTab2 ==
    Idle /\ \E note \in SampleNotes, t \in SecondsSet, rel \in LevelIds :
        Call("app_tab2", [note |-> note, t |-> t, reliability |-> rel],
             app_tab2(note.z, note.cents, t, LevelOf(rel)))

NextHash ==
    RequiredHashrate \/ NoteFromHashrate \/ ComputeBestNote \/ PlannerTab2 \/ AppTab2

SpecHash == InitIdle /\ [][NextHash]_vars

(***************************************************************************)
(* Claims on the hashrate conversion.                                      *)
(***************************************************************************)
\* The hashrate is below what the first label 1Z00 requires:
\* log2(hps * t / k) < MIN_ZEROS.
BelowFirstLabel(hps, t, rel) ==
    hps < required_hashrate(Note(MIN_ZEROS, 0), t, rel).value

\* C4: if note_from_hashrate(hps, t, level) returns a note N then
\* required_hashrate(N, t, level).value <= hps; it fails HashrateTooLow,
\* returning no note, whenever log2(hps * t / k) < MIN_ZEROS.  The same
\* through the planner's _compute_best_note.
C4_NeverNeedsMoreThanSupplied ==
    /\ op = "note_from_hashrate" =>
          /\ IsNote(out) =>
                required_hashrate(out.note, args.t, args.reliability).value <= args.hps
          /\ BelowFirstLabel(args.hps, args.t, args.reliability)
                => IsErr(out, "HashrateTooLow")
    /\ (op = "_compute_best_note" /\ args.hps.pos) =>
          /\ out.note # None =>
                /\ required_hashrate(out.note, args.t, args.reliability).value
                      <= args.hps.log
                /\ out.error = "None"
          /\ BelowFirstLabel(args.hps.log, args.t, args.reliability)
                => out.note = None /\ out.error = "HashrateTooLow"

C4_Witness ==
    /\ op = "_compute_best_note" /\ args.hps.pos
    /\ args.reliability = "often_95" /\ args.t = DEFAULT_TARGET_SECS
    /\ out.note = Note(DefaultZ, MAX_CENTZ)
    /\ required_hashrate(out.note, args.t, args.reliability).value < args.hps.log

\* The label one cent step above a note, if there is one.
HasNext(note) == note # Note(MAX_ZEROS, MAX_CENTZ)
NextNote(note) == CentsToNote(note.z * (MAX_CENTZ + 1) + note.cents + 1)

\* The band of a note: low < high, low the hashrate its exact zbits
\* require, high the one zbits + 0.01 require.
BandOf(rng, note, t, rel) ==
    /\ rng.kind = "range"
    /\ rng.low.value < rng.high.value
    /\ rng.low = required_hashrate(note, t, rel)
    /\ rng.high.value - rng.low.value = CENT_ZBIT_STEP
    /\ HasNext(note) => rng.high = required_hashrate(NextNote(note), t, rel)

\* What the planner's tab2 shows for a note.
Tab2Bands ==
    op = "planner_tab2" =>
        /\ out.label = Label(args.note)
        /\ BandOf(out.mean_range, args.note, args.t, ReliabilityLevels[1].id)
        /\ BandOf(out.selected_range, args.note, args.t, args.reliability)
        /\ \A i \in DOMAIN ReliabilityLevels :
              BandOf(out.table[i], args.note, args.t, ReliabilityLevels[i].id)

\* C5 as claimed: low < high, low and high as above, every h with
\* low <= h < high is mapped by note_from_hashrate to this label and
\* h = high to the next cent step, for every valid note.
C5_HalfOpenBandEveryNote ==
    /\ Tab2Bands
    /\ op = "note_from_hashrate" =>
          /\ BandOf(args.range, args.note, args.t, args.reliability)
          /\ (0 <= args.offset /\ args.offset < CENT_ZBIT_STEP) => out = OkNote(args.note)
          /\ args.offset = CENT_ZBIT_STEP => out = OkNote(NextNote(args.note))

\* C5 (amended): as claimed for every note below 256Z99; for 256Z99 the
\* band is the same and h = high has no label: note_from_hashrate fails
\* OutOfRange.  A hashrate below low is not mapped to the label.
C5_HalfOpenBand ==
    /\ Tab2Bands
    /\ op = "note_from_hashrate" =>
          /\ BandOf(args.range, args.note, args.t, args.reliability)
          /\ (0 <= args.offset /\ args.offset < CENT_ZBIT_STEP) => out = OkNote(args.note)
          /\ args.offset < 0 => out # OkNote(args.note)
          /\ args.offset = CENT_ZBIT_STEP =>
                IF HasNext(args.note) THEN out = OkNote(NextNote(args.note))
                ELSE IsErr(out, "OutOfRange")

C5_Witness ==
    /\ op = "note_from_hashrate" /\ args.note = Note(MAX_ZEROS, MAX_CENTZ)
    /\ args.offset = CENT_ZBIT_STEP /\ args.hps = args.range.high.value
    /\ IsErr(out, "OutOfRange")

\* C6: for a fixed note and window t > 0 required_hashrate is strictly
\* increasing along the catalog order; the Mean level equals
\* required_hashrate_mean = 2^zbits / t; an unknown reliability id fails
\* InvalidReliabilityId and t <= 0 fails NonPositiveWindow.
C6_IncreasingWithReliability ==
    /\ op = "app_tab2" =>
          /\ \A i \in DOMAIN ReliabilityLevels :
                /\ out.table[i].kind = "measurement"
                /\ out.table[i] = required_hashrate(args.note, args.t, ReliabilityLevels[i].id)
                /\ i > 1 => out.table[i - 1].value < out.table[i].value
          /\ out.req_mean = out.table[1]
          /\ out.req_mean.value + Log2Milli(FromInt(args.t)) = ZbitsOf(args.note)
          /\ out.req_chosen = required_hashrate(args.note, args.t, args.reliability)
    /\ op = "required_hashrate" =>
          /\ (args.reliability \in LevelIds /\ args.t > 0) => out.kind = "measurement"
          /\ (args.reliability \notin LevelIds /\ args.t > 0)
                => IsErr(out, "InvalidReliabilityId")
          /\ (args.reliability \in LevelIds /\ args.t <= 0)
                => IsErr(out, "NonPositiveWindow")
          /\ (args.reliability \notin LevelIds /\ args.t <= 0)
                => IsErr(out, "InvalidReliabilityId") \/ IsErr(out, "NonPositiveWindow")

C6_Witness ==
    /\ op = "app_tab2" /\ args.note = Note(DefaultZ, 0) /\ args.t = DEFAULT_TARGET_SECS
    /\ out.table[1].value < out.table[5].value
    /\ out.req_mean.value = DefaultZ * MILLI - Log2Milli(FromInt(DEFAULT_TARGET_SECS))

(***************************************************************************)
(* Arithmetic Lab, main: the operations on notes A and B.  An error the    *)
(* page does not catch ends the run: the result is the error.              *)
(***************************************************************************)
\* lab_arithmetic taking the difference B - A.
LabArithmeticSwapped(note_a, note_b) ==
    LET combined == combine_notes_serial(<<note_a, note_b>>)
        diff_ab == note_difference(note_b, note_a)
    IN IF combined.kind = "error" THEN combined
       ELSE IF diff_ab.kind = "error" THEN diff_ab
       ELSE [kind |-> "arithmetic", combined |-> combined.note, diff_ab |-> diff_ab.note]

\* lab_arithmetic combining A with itself.
LabArithmeticTwiceA(note_a, note_b) ==
    LET combined == combine_notes_serial(<<note_a, note_a>>)
        diff_ab == note_difference(note_a, note_b)
    IN IF combined.kind = "error" THEN combined
       ELSE IF diff_ab.kind = "error" THEN diff_ab
       ELSE [kind |-> "arithmetic", combined |-> combined.note, diff_ab |-> diff_ab.note]

\* combined and diff_ab of two resolved notes.
lab_arithmetic(note_a, note_b) ==
    LET combined == combine_notes_serial(<<note_a, note_b>>)
        diff_ab == note_difference(note_a, note_b)
    IN IF combined.kind = "error" THEN combined
       ELSE IF diff_ab.kind = "error" THEN diff_ab
       ELSE [kind |-> "arithmetic", combined |-> combined.note, diff_ab |-> diff_ab.note]

\* The slider hands scale_note a multiple of 0.05.
SliderFactor(twentieths) == Factor(twentieths, 20)

\* lab_scaling scaling A by the factor of B.
LabScalingWrongSlider(note_a, note_b, factor_a, factor_b) ==
    LET scaled_a == scale_note(note_a, factor_b)
        scaled_b == scale_note(note_b, factor_b)
    IN IF scaled_a.kind = "error" THEN scaled_a
       ELSE IF scaled_b.kind = "error" THEN scaled_b
       ELSE [kind |-> "scaling", scaled_a |-> scaled_a.note, scaled_b |-> scaled_b.note]

\* scaled_a and scaled_b of two resolved notes.
lab_scaling(note_a, note_b, factor_a, factor_b) ==
    LET scaled_a == scale_note(note_a, factor_a)
        scaled_b == scale_note(note_b, factor_b)
    IN IF scaled_a.kind = "error" THEN scaled_a
       ELSE IF scaled_b.kind = "error" THEN scaled_b
       ELSE [kind |-> "scaling", scaled_a |-> scaled_a.note, scaled_b |-> scaled_b.note]

(***************************************************************************)
(* The difficulty arithmetic applied to drawn inputs.                      *)
(***************************************************************************)
\* The notes explored: at both ends of the range, around the lab's default
\* labels 32Z00 and 31Z50, and 39Z00, 40Z00.
ArithZ == SampleZ \cup {31, 39, 40}
ArithNotes == {Note(z, c) : z \in ArithZ, c \in SampleCents}
\* The notes longer sequences are made of.
SeqNotes == {Note(z, c) : z \in {MIN_ZEROS, DefaultZ - 1, DefaultZ, MAX_ZEROS},
                          c \in {MIN_CENTZ, (MAX_CENTZ + 1) \div 2}}

RECURSIVE NoteSeqs(_)
NoteSeqs(n) ==
    IF n = 0 THEN {<<>>}
    ELSE {<<a>> \o t : a \in SeqNotes, t \in NoteSeqs(n - 1)}

SliderTwentieths == 5..1000

CombinePair ==
    Idle /\ \E a \in ArithNotes, b \in ArithNotes :
        Call("combine_notes_serial", [notes |-> <<a, b>>],
             combine_notes_serial(<<a, b>>))

CombineSeq ==
    Idle /\ \E n \in 0..MaxNotes : \E notes \in NoteSeqs(n) :
        Call("combine_notes_serial", [notes |-> notes], combine_notes_serial(notes))

CombineOne ==
    Idle /\ \E z \in MIN_ZEROS..MAX_ZEROS, c \in SampleCents :
        Call("combine_notes_serial", [notes |-> <<Note(z, c)>>],
             combine_notes_serial(<<Note(z, c)>>))

NoteDifference ==
    Idle /\ \E a \in ArithNotes, b \in ArithNotes :
        Call("note_difference", [a |-> a, b |-> b], note_difference(a, b))

ScaleNote ==
    Idle /\ \E note \in ArithNotes, num \in (0 - 1)..MaxFactorNum, den \in 1..MaxFactorDen :
        Call("scale_note", [note |-> note, factor |-> Factor(num, den)],
             scale_note(note, Factor(num, den)))

LabArithmetic ==
    Idle /\ \E a \in ArithNotes, b \in ArithNotes :
        Call("lab_arithmetic", [a |-> a, b |-> b], lab_arithmetic(a, b))

LabScaling ==
    Idle /\ \E a \in SeqNotes, b \in {Note(DefaultZ - 1, (MAX_CENTZ + 1) \div 2)},
            fa \in SliderTwentieths, fb \in {5, 20, 1000} :
        Call("lab_scaling",
             [a |-> a, b |-> b, factor_a |-> SliderFactor(fa), factor_b |-> SliderFactor(fb)],
             lab_scaling(a, b, SliderFactor(fa), SliderFactor(fb)))

NextArith ==
    \/ CombinePair \/ CombineSeq \/ CombineOne \/ NoteDifference \/ ScaleNote
    \/ LabArithmetic \/ LabScaling

SpecArith == InitIdle /\ [][NextArith]_vars

(***************************************************************************)
(* Claims on the difficulty arithmetic.                                    *)
(***************************************************************************)
CentsOf(note) == note.z * (MAX_CENTZ + 1) + note.cents
HalfCent == CENT_ZBIT_STEP \div 2

\* a >= b
FloatAtLeast(a, b) == ~FloatGreater(b, a)

\* The float x rounds to the count q of cents:
\* 2^(q - 1/2 cent) <= x < 2^(q + 1/2 cent).
RoundsTo(x, q) ==
    /\ FloatAtLeast(x, Pow2(q * CENT_ZBIT_STEP - HalfCent))
    /\ FloatGreater(Pow2(q * CENT_ZBIT_STEP + HalfCent), x)

\* The float x lies above every label, below every label.
AboveLabels(x) ==
    FloatAtLeast(x, Pow2(CentsOf(Note(MAX_ZEROS, MAX_CENTZ)) * CENT_ZBIT_STEP + HalfCent))
BelowLabels(x) ==
    FloatGreater(Pow2(CentsOf(Note(MIN_ZEROS, 0)) * CENT_ZBIT_STEP - HalfCent), x)

Max(S) == CHOOSE x \in S : \A y \in S : x >= y

\* The sum of the difficulties of a non-empty sequence of notes, every
\* term brought to the exponent of the largest before any is added.
TotalDifficulty(notes) ==
    LET D == [i \in DOMAIN notes |-> Difficulty(notes[i])]
        top == Max({D[i].e : i \in DOMAIN notes})
        RECURSIVE Mantissas(_)
        Mantissas(i) ==
            IF i = 0 THEN 0 ELSE Halve(D[i].m, top - D[i].e) + Mantissas(i - 1)
    IN Normalize(top, Mantissas(Len(notes)))

Reorderings(notes) ==
    LET n == Len(notes)
    IN {[i \in 1..n |-> notes[p[i]]] :
            p \in {f \in [1..n -> 1..n] : \A i, j \in 1..n : f[i] = f[j] => i = j}}

\* out is what combining the non-empty sequence notes must give.
Combined(notes, r) ==
    IF IsNote(r)
    THEN /\ RoundsTo(TotalDifficulty(notes), CentsOf(r.note))
         /\ \A i \in DOMAIN notes : ZbitsOf(r.note) >= ZbitsOf(notes[i])
    ELSE IsErr(r, "OutOfRange") /\ AboveLabels(TotalDifficulty(notes))

\* C9: combine_notes_serial returns a single note unchanged, fails on the
\* empty sequence, and otherwise returns the note quantized from log2 of
\* the sum of the 2^zbits_i: a note combined with itself gains exactly one
\* zbit, the result does not depend on the order and is not below the
\* largest input; it fails OutOfRange when the result exceeds 256Z99.
C9_CombineSerial ==
    /\ op = "combine_notes_serial" =>
          /\ args.notes = <<>> => out.kind = "error"
          /\ Len(args.notes) = 1 => out = OkNote(args.notes[1])
          /\ args.notes # <<>> => Combined(args.notes, out)
          /\ (Len(args.notes) = 2 /\ args.notes[1] = args.notes[2]) =>
                IF args.notes[1].z < MAX_ZEROS
                THEN out = OkNote(Note(args.notes[1].z + 1, args.notes[1].cents))
                ELSE IsErr(out, "OutOfRange")
          /\ \A other \in Reorderings(args.notes) : combine_notes_serial(other) = out
    /\ (op = "lab_arithmetic" /\ out.kind = "arithmetic") =>
          Combined(<<args.a, args.b>>, OkNote(out.combined))

C9_Witness ==
    /\ op = "combine_notes_serial"
    /\ args.notes = <<Note(DefaultZ - 1, 50), Note(DefaultZ - 1, 50)>>
    /\ out = OkNote(Note(DefaultZ, 50))

\* The note r is the one quantized from log2(2^zbits_a - 2^zbits_b):
\* 2^zbits_b + 2^(r - 1/2 cent) <= 2^zbits_a < 2^zbits_b + 2^(r + 1/2 cent).
IsDifference(a, b, note) ==
    /\ FloatAtLeast(Difficulty(a),
           FloatAdd(Difficulty(b), Pow2(ZbitsOf(note) - HalfCent)))
    /\ FloatGreater(FloatAdd(Difficulty(b), Pow2(ZbitsOf(note) + HalfCent)),
           Difficulty(a))

\* 2^zbits_a - 2^zbits_b quantizes below 1Z00.
DifferenceBelowLabels(a, b) ==
    FloatGreater(FloatAdd(Difficulty(b), Pow2(MIN_ZEROS * MILLI - HalfCent)),
                 Difficulty(a))

\* C7 as claimed: note_difference fails NonPositiveDifference whenever
\* zbits_a <= zbits_b and for zbits_a > zbits_b returns the note quantized
\* from log2(2^zbits_a - 2^zbits_b).
C7_DifferenceAlwaysANote ==
    op = "note_difference" =>
        IF ZbitsOf(args.a) <= ZbitsOf(args.b) THEN IsErr(out, "NonPositiveDifference")
        ELSE IsNote(out) /\ IsDifference(args.a, args.b, out.note)

\* C7 (amended): note_difference fails NonPositiveDifference whenever
\* zbits_a <= zbits_b; for zbits_a > zbits_b it returns the note quantized
\* from log2(2^zbits_a - 2^zbits_b) when that lies within 1Z00..256Z99 and
\* fails OutOfRange when it lies below 1Z00.  The lab's diff_ab is that
\* note.
C7_Difference ==
    /\ op = "note_difference" =>
          IF ZbitsOf(args.a) <= ZbitsOf(args.b) THEN IsErr(out, "NonPositiveDifference")
          ELSE IF IsNote(out) THEN IsDifference(args.a, args.b, out.note)
          ELSE IsErr(out, "OutOfRange") /\ DifferenceBelowLabels(args.a, args.b)
    /\ op = "lab_arithmetic" =>
          /\ ZbitsOf(args.a) <= ZbitsOf(args.b) => out.kind = "error"
          /\ out.kind = "arithmetic" =>
                /\ ZbitsOf(args.a) > ZbitsOf(args.b)
                /\ IsDifference(args.a, args.b, out.diff_ab)

C7_Witness ==
    /\ op = "note_difference" /\ args.a = Note(40, 0) /\ args.b = Note(39, 0)
    /\ out = OkNote(Note(39, 0))

\* C10: scale_note fails NonPositiveFactor for every factor <= 0, returns
\* the note unchanged for factor 1, returns the note quantized from
\* zbits + log2(factor) for factor > 0 (factor 2 adds one zbit, factor 1/2
\* removes one) and fails OutOfRange when that lies outside 1Z00..256Z99.
Scaled(note, factor, r) ==
    LET zm == ZbitsOf(note) + LogFactor(factor)
    IN /\ IF zm < 0 THEN IsErr(r, "OutOfRange") ELSE Quantized(zm, r)
       /\ factor.num = factor.den => r = OkNote(note)
       /\ factor.num = 2 * factor.den =>
             IF note.z < MAX_ZEROS THEN r = OkNote(Note(note.z + 1, note.cents))
             ELSE IsErr(r, "OutOfRange")
       /\ 2 * factor.num = factor.den =>
             IF note.z > MIN_ZEROS THEN r = OkNote(Note(note.z - 1, note.cents))
             ELSE IsErr(r, "OutOfRange")

C10_ScaleNote ==
    /\ op = "scale_note" =>
          IF args.factor.num <= 0 THEN IsErr(out, "NonPositiveFactor")
          ELSE Scaled(args.note, args.factor, out)
    /\ (op = "lab_scaling" /\ out.kind = "scaling") =>
          /\ Scaled(args.a, args.factor_a, OkNote(out.scaled_a))
          /\ Scaled(args.b, args.factor_b, OkNote(out.scaled_b))

C10_Witness ==
    /\ op = "scale_note" /\ args.note = Note(MAX_ZEROS, MAX_CENTZ)
    /\ args.factor = Factor(2, 1) /\ IsErr(out, "OutOfRange")

(***************************************************************************)
(* nBits Codec (sharenotelib): one size byte, the count of significant     *)
(* bytes of the target, then the three leading significant bytes; the      *)
(* target is mantissa * 256^(size - 3).                                    *)
(***************************************************************************)
TARGET_BITS == 256
NBITS_LEN == 8
SIZE_LEN == 2
BYTE_BITS == 8
MANTISSA_BYTES == 3

HexDigits == <<"0", "1", "2", "3", "4", "5", "6", "7", "8", "9",
               "a", "b", "c", "d", "e", "f">>
UpperHexDigits == <<"0", "1", "2", "3", "4", "5", "6", "7", "8", "9",
                    "A", "B", "C", "D", "E", "F">>
HexBase == Len(HexDigits)
IsLowerHex(ch) == \E i \in DOMAIN HexDigits : HexDigits[i] = ch
IsHex(ch) == IsLowerHex(ch) \/ \E i \in DOMAIN UpperHexDigits : UpperHexDigits[i] = ch
HexValue(ch) ==
    (CHOOSE i \in DOMAIN HexDigits : HexDigits[i] = ch \/ UpperHexDigits[i] = ch) - 1

RECURSIVE ToHex(_, _)
\* format(n, "0<width>x")
ToHex(n, width) ==
    IF width = 0 THEN <<>>
    ELSE ToHex(n \div HexBase, width - 1) \o <<HexDigits[(n % HexBase) + 1]>>

RECURSIVE ParseHex(_)
\* int(s, 16) for a string of hex characters.
ParseHex(s) ==
    IF s = <<>> THEN 0
    ELSE HexBase * ParseHex(SubSeq(s, 1, Len(s) - 1)) + HexValue(s[Len(s)])

\* log2 of the target a note stands for, in milli-bits: 256 - zbits.
LogTarget(note) == TARGET_BITS * MILLI - ZbitsOf(note)

sharenote_to_nbits(note) ==
    LET target == Pow2(LogTarget(note))
        bits == target.e + 1
        size == (bits + BYTE_BITS - 1) \div BYTE_BITS
        mantissa == Halve(target.m, BYTE_BITS * size - bits)
    IN ToHex(size, SIZE_LEN) \o ToHex(mantissa, NBITS_LEN - SIZE_LEN)

\* zbits of the target mantissa * 256^(size - 3), mantissa >= 1.
ZbitsOfCompact(size, mantissa) ==
    TARGET_BITS * MILLI
        - (Log2Milli(FromInt(mantissa)) + BYTE_BITS * MILLI * (size - MANTISSA_BYTES))

nbits_to_sharenote(hex8) ==
    IF Len(hex8) # NBITS_LEN \/ \E i \in DOMAIN hex8 : ~IsHex(hex8[i])
    THEN Err("InvalidNBits")
    ELSE LET size == ParseHex(SubSeq(hex8, 1, SIZE_LEN))
             mantissa == ParseHex(SubSeq(hex8, SIZE_LEN + 1, NBITS_LEN))
         IN IF mantissa = 0 THEN Err("OutOfRange")
            ELSE note_from_zbits(ZbitsOfCompact(size, mantissa))

(***************************************************************************)
(* Arithmetic Lab, format conversions (src/pages/Arithmetic_Lab.py).       *)
(***************************************************************************)
Shown(kind, message) == [kind |-> kind, message |-> message]

\* lab_nbits with the lab-limit test inverted.
LabNbitsLimitInverted(nbits_input) ==
    IF nbits_input = <<>> THEN NoResult
    ELSE LET converted == nbits_to_sharenote(nbits_input)
         IN IF converted.kind = "error" THEN Shown("st.error", converted.err)
            ELSE IF ~_note_within_lab_limits(converted.note)
            THEN LET stats == _summarize_note(converted.note)
                 IN IF stats.kind = "error" THEN stats
                    ELSE [kind |-> "st.success", note |-> converted.note, stats |-> stats]
            ELSE Shown("st.error", "exceeds the lab cap")

\* The panel "nBits (8 hex)".
lab_nbits(nbits_input) ==
    IF nbits_input = <<>> THEN NoResult
    ELSE LET converted == nbits_to_sharenote(nbits_input)
         IN IF converted.kind = "error" THEN Shown("st.error", converted.err)
            ELSE IF _note_within_lab_limits(converted.note)
            THEN LET stats == _summarize_note(converted.note)
                 IN IF stats.kind = "error" THEN stats
                    ELSE [kind |-> "st.success", note |-> converted.note, stats |-> stats]
            ELSE Shown("st.error", "exceeds the lab cap")

\* The panel "Sharenote label".
lab_label_to_nbits(sharenote_input) ==
    IF sharenote_input = <<>> THEN NoResult
    ELSE LET r == _resolve(sharenote_input)
         IN IF r.kind = "error" THEN r
            ELSE IF r.note # None /\ r.stats # None
            THEN [kind |-> "st.success", note |-> r.note,
                  nbits |-> sharenote_to_nbits(r.note), stats |-> r.stats]
            ELSE Shown("st.error", r.status)

(***************************************************************************)
(* The nBits codec applied to drawn inputs.                                *)
(***************************************************************************)
AllNotes == {Note(z, c) : z \in MIN_ZEROS..MAX_ZEROS, c \in MIN_CENTZ..MAX_CENTZ}

\* The text box's default, 1a2b3c4d, is among the strings explored.
DefaultSize == 26
DefaultMantissa == 2833485
Sizes == {0, 1, MANTISSA_BYTES, DefaultSize, 32, 33, 34, 35, 255}
Mantissas == {0, 1, 255, 32768, DefaultMantissa, 8388608, 11863283, 16777215}
NotHex == {"g", "G", "x", " ", "-", "Z"}

Compact(size, mantissa, upper) ==
    LET text == ToHex(size, SIZE_LEN) \o ToHex(mantissa, NBITS_LEN - SIZE_LEN)
    IN IF upper
       THEN [i \in DOMAIN text |-> UpperHexDigits[HexValue(text[i]) + 1]]
       ELSE text

SharenoteToNbits ==
    Idle /\ \E note \in AllNotes :
        Call("sharenote_to_nbits", [note |-> note], sharenote_to_nbits(note))

\* nbits_to_sharenote on what sharenote_to_nbits returned.
NbitsRoundTrip ==
    Idle /\ \E note \in AllNotes :
        Call("nbits_round_trip", [note |-> note, nbits |-> sharenote_to_nbits(note)],
             nbits_to_sharenote(sharenote_to_nbits(note)))

NbitsToSharenote ==
    Idle /\ \E size \in Sizes, mantissa \in Mantissas, upper \in BOOLEAN :
        Call("nbits_to_sharenote",
             [text |-> Compact(size, mantissa, upper), size |-> size,
              mantissa |-> mantissa],
             nbits_to_sharenote(Compact(size, mantissa, upper)))

\* A compact string with one character replaced by one that is not hex.
NbitsBadCharacter ==
    Idle /\ \E size \in Sizes, mantissa \in Mantissas, i \in 1..NBITS_LEN, ch \in NotHex :
        LET text == [Compact(size, mantissa, FALSE) EXCEPT ![i] = ch]
        IN Call("nbits_malformed", [text |-> text], nbits_to_sharenote(text))

\* A compact string cut short or drawn out, and any short text.
NbitsBadLength ==
    Idle /\ \E size \in Sizes, mantissa \in Mantissas, cut \in 1..NBITS_LEN :
            \E text \in {SubSeq(Compact(size, mantissa, FALSE), 1, NBITS_LEN - cut),
                         SubSeq(Compact(size, mantissa, FALSE), 1, cut) \o
                             Compact(size, mantissa, FALSE)} \cup TextsOfLen(MaxNbitsText) :
        Call("nbits_malformed", [text |-> text], nbits_to_sharenote(text))

LabNbits ==
    Idle /\ \E size \in Sizes, mantissa \in Mantissas, cut \in 0..1 :
        LET text == SubSeq(Compact(size, mantissa, FALSE), 1, NBITS_LEN - cut * NBITS_LEN)
        IN Call("lab_nbits",
                [text |-> text, size |-> size, mantissa |-> mantissa],
                lab_nbits(text))

LabLabelToNbits ==
    Idle /\ \E z \in TypedZ, cents \in LabelCents, lead \in 0..MaxPad :
        Call("lab_label_to_nbits",
             [z |-> z, cents |-> cents, text |-> Typed(z, cents, lead, 0, FALSE)],
             lab_label_to_nbits(Typed(z, cents, lead, 0, FALSE)))

NextNbits ==
    \/ SharenoteToNbits
    \/ NbitsRoundTrip
    \/ NbitsToSharenote
    \/ NbitsBadCharacter
    \/ NbitsBadLength
    \/ LabNbits
    \/ LabLabelToNbits

SpecNbits == InitIdle /\ [][NextNbits]_vars

(***************************************************************************)
(* Claims on the nBits codec.                                              *)
(***************************************************************************)
IsNbits(text) ==
    Len(text) = NBITS_LEN /\ \A i \in DOMAIN text : IsLowerHex(text[i])

Distance(a, b) == IF a >= b THEN a - b ELSE b - a

\* C8: sharenote_to_nbits returns, for every valid note, 8 lowercase hex
\* characters that nbits_to_sharenote accepts, and the decoded note is
\* within 0.01 zbits of the original; nbits_to_sharenote fails
\* InvalidNBits for whatever is not exactly 8 hex characters and
\* OutOfRange when the decoded zbits is outside the label bounds, and
\* otherwise returns the note quantized from 256 - log2(target).  The lab
\* shows the decoded note, or the failure, and the nBits of a resolved
\* label.
C8_NbitsCodec ==
    /\ op = "sharenote_to_nbits" =>
          IsNbits(out) /\ IsNote(nbits_to_sharenote(out))
    /\ op = "nbits_round_trip" =>
          /\ IsNote(out)
          /\ Distance(ZbitsOf(out.note), ZbitsOf(args.note)) <= CENT_ZBIT_STEP
    /\ op = "nbits_malformed" => IsErr(out, "InvalidNBits")
    /\ op = "nbits_to_sharenote" =>
          IF args.mantissa = 0 THEN IsErr(out, "OutOfRange")
          ELSE Quantized(ZbitsOfCompact(args.size, args.mantissa), out)
    /\ op = "lab_nbits" =>
          IF args.text = <<>> THEN out = NoResult
          ELSE IF args.mantissa # 0
                  /\ IsNote(note_from_zbits(ZbitsOfCompact(args.size, args.mantissa)))
          THEN /\ out.kind = "st.success"
               /\ Quantized(ZbitsOfCompact(args.size, args.mantissa), OkNote(out.note))
          ELSE out = Shown("st.error", "OutOfRange")
    /\ (op = "lab_label_to_nbits" /\ out.kind = "st.success") =>
          /\ IsNbits(out.nbits)
          /\ out.note = Note(args.z, args.cents)
          /\ nbits_to_sharenote(out.nbits) = OkNote(out.note)

C8_Witness ==
    /\ op = "nbits_round_trip" /\ args.note = Note(DefaultZ + 1, 54)
    /\ IsNbits(args.nbits) /\ out = OkNote(args.note)

(***************************************************************************)
(* Arithmetic_Lab.main(), one section of the page per step.  A run holds   *)
(* its widgets' values and locals; _LAB_SECONDS and _LAB_RELIABILITY are   *)
(* the module's globals.  An exception no handler of main() catches ends   *)
(* the run at pc = "raised".                                               *)
(***************************************************************************)
Panels == {"Sharenote A", "Sharenote B", "Addition", "Subtraction", "Division",
           "Scaled A", "Scaled B", "A / factor", "B / factor", "nBits", "Label"}

Raise(s, e) == [s EXCEPT !.pc = "raised", !.raised = e.err]
Show(s, panel, what) == [s EXCEPT !.shown[panel] = what]
Goto(s, pc) == [s EXCEPT !.pc = pc]

\* if note and stats
Resolved(note, stats) == note # None /\ stats # None

\* _render_note_metric with the limits test inverted.
RenderNoteMetricLimitInverted(note) ==
    IF note = None THEN Shown("st.info", "result awaits a valid Sharenote")
    ELSE IF _note_within_lab_limits(note)
    THEN Shown("st.info", "is not supported in this lab")
    ELSE LET stats == _summarize_note(note)
         IN IF stats.kind = "error" THEN stats
            ELSE [kind |-> "st.metric", note |-> note, stats |-> stats]

\* What the column shows, or the error _summarize_note raised.
_render_note_metric(note) ==
    IF note = None THEN Shown("st.info", "result awaits a valid Sharenote")
    ELSE IF ~_note_within_lab_limits(note)
    THEN Shown("st.info",
               IF note.z < MIN_ZEROS THEN "is below the lab minimum"
               ELSE IF note.z > MAX_ZEROS THEN "exceeds the lab maximum"
               ELSE "is not supported in this lab")
    ELSE LET stats == _summarize_note(note)
         IN IF stats.kind = "error" THEN stats
            ELSE [kind |-> "st.metric", note |-> note, stats |-> stats]

\* The run after _note_panel: the panel shown, note and stats kept under
\* the names given.
_note_panel(s, title, note_input, note_field, stats_field) ==
    LET r == _resolve(note_input)
    IN IF r.kind = "error" THEN Raise(s, r)
       ELSE [Show(s, title,
                  IF Resolved(r.note, r.stats)
                  THEN [kind |-> "st.metric", note |-> r.note, stats |-> r.stats]
                  ELSE Shown("st.error", r.status))
             EXCEPT ![note_field] = r.note, ![stats_field] = r.stats]

\* ratio_value and ratio_delta of the Division metric.
lab_division(note_a, note_b) ==
    LET ratio_zbits == divide_notes(note_a, note_b)
        ratio_note == _maybe_note_from_zbits(ratio_zbits)
    IN IF ratio_note # None
       THEN LET stats == _summarize_note(ratio_note)
            IN IF stats.kind = "error"
               THEN [kind |-> "st.metric", value |-> "A / B not possible",
                     note |-> None, delta |-> "division error"]
               ELSE [kind |-> "st.metric", value |-> "A / B =",
                     note |-> ratio_note, delta |-> stats]
       ELSE [kind |-> "st.metric", value |-> "A / B not possible",
             note |-> None, delta |-> "failed to convert to note"]

\* The section "Arithmetic operations".
main_arithmetic(s) ==
    IF Resolved(s.note_a, s.stats_a) /\ Resolved(s.note_b, s.stats_b)
    THEN LET both == lab_arithmetic(s.note_a, s.note_b)
         IN IF both.kind = "error" THEN Raise(s, both)
            ELSE LET division == lab_division(s.note_a, s.note_b)
                     addition == _render_note_metric(both.combined)
                     subtraction == _render_note_metric(both.diff_ab)
                 IN IF addition.kind = "error" THEN Raise(s, addition)
                    ELSE IF subtraction.kind = "error" THEN Raise(s, subtraction)
                    ELSE Goto(Show(Show(Show(s, "Addition", addition),
                                        "Subtraction", subtraction),
                                   "Division", division), "scaling")
    ELSE Goto(Show(Show(Show(s, "Addition", Shown("st.info", "Awaiting two valid notes")),
                        "Subtraction", Shown("st.info", "Awaiting two valid notes")),
                   "Division", Shown("st.info", "Awaiting two valid notes")), "scaling")

\* scale_note on one note and the metric of the result; caught tells
\* whether the call stands in a try that catches SharenoteError.
main_scale(s, note, stats, factor, panel, caught) ==
    IF s.pc = "raised" THEN s
    ELSE IF ~Resolved(note, stats) THEN Show(s, panel, Shown("st.info", "Enter a valid Note"))
    ELSE LET scaled == scale_note(note, factor)
         IN IF scaled.kind = "error"
            THEN IF caught THEN Show(s, panel, Shown("st.error", scaled.err))
                 ELSE Raise(s, scaled)
            ELSE LET metric == _render_note_metric(scaled.note)
                 IN IF metric.kind = "error" THEN Raise(s, metric)
                    ELSE Show(s, panel, metric)

Advance(s, pc) == IF s.pc = "raised" THEN s ELSE Goto(s, pc)

\* The section "Scaling".
main_scaling(s) ==
    Advance(main_scale(main_scale(s, s.note_a, s.stats_a, s.factor_a, "Scaled A", FALSE),
                       s.note_b, s.stats_b, s.factor_b, "Scaled B", FALSE),
            "division")

\* The divisor sliders hand over multiples of 0.25; the note is scaled by
\* 1.0 / divisor.
Reciprocal(quarters) == Factor(4, quarters)

\* The section "Division by a scalar".
main_division(s) ==
    Advance(main_scale(main_scale(s, s.note_a, s.stats_a, Reciprocal(s.divisor_a),
                                  "A / factor", TRUE),
                       s.note_b, s.stats_b, Reciprocal(s.divisor_b), "B / factor", TRUE),
            "formats")

\* The section "Format conversions".
main_formats(s) ==
    LET nbits == lab_nbits(s.nbits_input)
        label == lab_label_to_nbits(s.sharenote_input)
    IN IF nbits.kind = "error" THEN Raise(s, nbits)
       ELSE IF label.kind = "error" THEN Raise(s, label)
       ELSE Goto(Show(Show(s, "nBits", nbits), "Label", label), "done")

(***************************************************************************)
(* Runs of the lab page.                                                   *)
(***************************************************************************)
Text32Z00 == Label(Note(DefaultZ, 0))
DefaultNbits == Compact(DefaultSize, DefaultMantissa, FALSE)

\* A run at the top of main(), the sidebar read.
NewRun(level, t_secs, label_a, label_b, factor_a, factor_b, divisor_a, divisor_b, nbits_input) ==
    [pc |-> "set_reliability", level |-> level, t_secs |-> t_secs,
     label_a |-> label_a, label_b |-> label_b,
     factor_a |-> factor_a, factor_b |-> factor_b,
     divisor_a |-> divisor_a, divisor_b |-> divisor_b,
     nbits_input |-> nbits_input, sharenote_input |-> Text32Z00,
     note_a |-> None, stats_a |-> None, note_b |-> None, stats_b |-> None,
     shown |-> [p \in Panels |-> NoResult], raised |-> "None"]

Running(r) == runs[r].pc \notin {"off", "done", "raised"}

\* One section of one run; the globals stay as they are.
Section(r, pc, after) ==
    /\ runs[r].pc = pc
    /\ runs' = [runs EXCEPT ![r] = after]
    /\ UNCHANGED <<op, args, out, LAB_SECONDS, LAB_RELIABILITY>>

\* _LAB_RELIABILITY = selected_level
SetReliability(r) ==
    /\ runs[r].pc = "set_reliability"
    /\ LAB_RELIABILITY' = runs[r].level
    /\ runs' = [runs EXCEPT ![r] = Goto(runs[r], "set_seconds")]
    /\ UNCHANGED <<op, args, out, LAB_SECONDS>>

\* _LAB_SECONDS = t_secs
SetSeconds(r) ==
    /\ runs[r].pc = "set_seconds"
    /\ LAB_SECONDS' = runs[r].t_secs
    /\ runs' = [runs EXCEPT ![r] = Goto(runs[r], "panel_a")]
    /\ UNCHANGED <<op, args, out, LAB_RELIABILITY>>

NotePanelA(r) ==
    Section(r, "panel_a",
            Advance(_note_panel(runs[r], "Sharenote A", runs[r].label_a,
                                "note_a", "stats_a"), "panel_b"))

NotePanelB(r) ==
    Section(r, "panel_b",
            Advance(_note_panel(runs[r], "Sharenote B", runs[r].label_b,
                                "note_b", "stats_b"), "arithmetic"))

Arithmetic(r) == Section(r, "arithmetic", main_arithmetic(runs[r]))
Scaling(r) == Section(r, "scaling", main_scaling(runs[r]))
DivisionByScalar(r) == Section(r, "division", main_division(runs[r]))
Formats(r) == Section(r, "formats", main_formats(runs[r]))

NextLab ==
    \E r \in Runs :
        \/ SetReliability(r)
        \/ SetSeconds(r)
        \/ NotePanelA(r)
        \/ NotePanelB(r)
        \/ Arithmetic(r)
        \/ Scaling(r)
        \/ DivisionByScalar(r)
        \/ Formats(r)

\* The labels typed into the two panels: the defaults 32Z00 and 31Z50,
\* both ends of the range, neighbours one cent apart, and no label.
LabLabels ==
    {Label(n) : n \in {Note(MIN_ZEROS, 0), Note(MIN_ZEROS, 1), Note(DefaultZ - 1, 50),
                       Note(DefaultZ, 0), Note(MAX_ZEROS, 0), Note(MAX_ZEROS, MAX_CENTZ)}}
        \cup {<<>>, Label(Note(0, 0))}
\* Slider values in twentieths (0.25, 1.0, 2.0, 50.0) and in quarters.
LabFactors == {SliderFactor(n) : n \in {5, 20, 40, 1000}}
LabDivisors == {1, 8}
\* The nBits typed: the default, nothing, a string cut short, the nBits of
\* the first and of the last label, and a target below every label's.
LabNbitsInputs ==
    {DefaultNbits, <<>>, SubSeq(DefaultNbits, 1, NBITS_LEN - 1),
     sharenote_to_nbits(Note(MIN_ZEROS, 0)),
     sharenote_to_nbits(Note(MAX_ZEROS, MAX_CENTZ)), Compact(0, 1, FALSE)}
LabWindows == {1, DEFAULT_TARGET_SECS}
LabLevels == {ReliabilityLevels[1].id, ReliabilityLevels[Len(ReliabilityLevels)].id}

\* One run, over the inputs above.
InitLab ==
    /\ op = "init" /\ args = <<>> /\ out = NoResult
    /\ LAB_SECONDS = DEFAULT_TARGET_SECS
    /\ LAB_RELIABILITY = "None"
    /\ \E level \in LabLevels, t_secs \in LabWindows, label_a \in LabLabels,
          label_b \in LabLabels, factor_a \in LabFactors, divisor_a \in LabDivisors,
          nbits_input \in LabNbitsInputs :
          runs = [r \in Runs |->
                     IF r = "first"
                     THEN NewRun(level, t_secs, label_a, label_b, factor_a, SliderFactor(40),
                                 divisor_a, 8, nbits_input)
                     ELSE Off]

SpecLab == InitLab /\ [][NextLab]_vars

(***************************************************************************)
(* Claims on the runs of the lab page.                                     *)
(***************************************************************************)
\* C11: for every pair of labels that pass _resolve and every slider
\* factor, a failure of combine_notes_serial, note_difference,
\* divide_notes or scale_note is rendered in its own panel and the
\* sections after it are still rendered: no run of main() ends with a
\* SharenoteError raised out of it, and a run that has both notes shows
\* something in every panel of the arithmetic, scaling and division
\* sections once it is past them.
C11_FailuresRenderedInPanels ==
    \A r \in Runs :
        (runs[r].pc # "off" /\ Resolved(runs[r].note_a, runs[r].stats_a)
                            /\ Resolved(runs[r].note_b, runs[r].stats_b)) =>
            /\ runs[r].pc # "raised"
            /\ runs[r].pc \in {"formats", "done"} =>
                  \A p \in {"Addition", "Subtraction", "Division", "Scaled A", "Scaled B",
                            "A / factor", "B / factor"} : runs[r].shown[p] # NoResult

\* Two runs at once, each with its own sidebar selection, on the default
\* labels and sliders.
InitLabRuns ==
    /\ op = "init" /\ args = <<>> /\ out = NoResult
    /\ LAB_SECONDS = DEFAULT_TARGET_SECS
    /\ LAB_RELIABILITY = "None"
    /\ \E level1 \in LabLevels, level2 \in LabLevels, t1 \in LabWindows, t2 \in LabWindows,
          label_b \in {Label(Note(DefaultZ - 1, 50)), <<>>} :
          /\ <<level1, t1>> # <<level2, t2>>
          /\ runs = [r \in Runs |->
                        NewRun(IF r = "first" THEN level1 ELSE level2,
                               IF r = "first" THEN t1 ELSE t2,
                               Text32Z00, label_b, SliderFactor(20), SliderFactor(20),
                               8, 8, DefaultNbits)]

SpecLabRuns == InitLabRuns /\ [][NextLab]_vars

\* Every summary a run holds or shows.
SummariesOf(s) ==
    {s.stats_a, s.stats_b}
        \cup {s.shown[p].stats : p \in {q \in Panels : "stats" \in DOMAIN s.shown[q]}}
        \cup {s.shown[p].delta : p \in {q \in Panels : "delta" \in DOMAIN s.shown[q]}}

\* C12: every note summary produced during one run of main() uses the
\* window and the reliability level selected in that run's sidebar, under
\* any interleaving of two runs with different selections, and the window
\* used is an integer >= 1.
C12_SummariesUseOwnSelection ==
    \A r \in Runs : \A stats \in SummariesOf(runs[r]) :
        ("kind" \in DOMAIN stats /\ stats.kind = "stats") =>
            /\ stats.seconds = runs[r].t_secs
            /\ stats.seconds >= 1
            /\ stats.selected_label = LevelOf(runs[r].level).label

(***************************************************************************)
(* Planner (src/pages/Planner.py) and app.py, tab1: the best note for a    *)
(* hashrate, the Result section and the reliability table.                 *)
(***************************************************************************)
\* The cell of a level that cannot be printed (an em dash in the source).
Dash == <<"-">>

_note_label_or_dash(note) ==
    IF note = None \/ note.z < MIN_ZEROS THEN Dash ELSE Label(note)

\* _build_reliability_table planning every row for the first level.
BuildReliabilityTableFirstLevel(hps, seconds) ==
    [i \in DOMAIN ReliabilityLevels |->
        <<ReliabilityLevels[i].label,
          IF ~hps.pos THEN Dash
          ELSE LET r == note_from_hashrate(hps.log, seconds, ReliabilityLevels[1].id)
               IN IF r.kind = "error" THEN Dash ELSE _note_label_or_dash(r.note)>>]

\* rows: one (level.label, label) per level of RELIABILITY_LEVELS.
_build_reliability_table(hps, seconds) ==
    [i \in DOMAIN ReliabilityLevels |->
        <<ReliabilityLevels[i].label,
          IF ~hps.pos THEN Dash
          ELSE LET r == note_from_hashrate(hps.log, seconds, ReliabilityLevels[i].id)
               IN IF r.kind = "error" THEN Dash ELSE _note_label_or_dash(r.note)>>]

\* if best_note_error: an empty message counts as none.
Truthy(message) == message # "None" /\ message # ""

\* result_section showing the success line whenever a note came back,
\* after the error line.
ResultSectionBothLines(best) ==
    (IF Truthy(best.error) THEN <<Shown("st.error", best.error)>> ELSE <<>>)
        \o (IF best.note = None \/ best.note.z < MIN_ZEROS
            THEN <<Shown("st.error", "Your hashrate is too low")>>
            ELSE <<[kind |-> "st.success", label |-> Label(best.note)]>>)

\* The lines of the section "Result".
result_section(best) ==
    IF Truthy(best.error) THEN <<Shown("st.error", best.error)>>
    ELSE IF best.note = None \/ best.note.z < MIN_ZEROS
    THEN <<Shown("st.error", "Your hashrate is too low")>>
    ELSE <<[kind |-> "st.success", label |-> Label(best.note)]>>

\* Planner.py, tab1.
planner_tab1(user_hps, t_secs, selected_level) ==
    LET best == _compute_best_note(user_hps, t_secs, selected_level)
    IN [kind |-> "tab1", best |-> best, result |-> result_section(best),
        table |-> _build_reliability_table(user_hps, t_secs)]

\* app.py, tab1: the same computation written out in place.
app_tab1(user_hps, t_secs, selected_level) ==
    LET r == note_from_hashrate(user_hps.log, t_secs, selected_level.id)
        best == IF user_hps.pos
                THEN IF r.kind = "error"
                     THEN [kind |-> "best", note |-> None, error |-> r.err]
                     ELSE [kind |-> "best", note |-> r.note, error |-> "None"]
                ELSE [kind |-> "best", note |-> None,
                      error |-> "Enter a hashrate greater than 0"]
    IN [kind |-> "tab1", best |-> best, result |-> result_section(best),
        table |-> [i \in DOMAIN ReliabilityLevels |->
            <<ReliabilityLevels[i].label,
              IF user_hps.pos
              THEN LET n == note_from_hashrate(user_hps.log, t_secs, ReliabilityLevels[i].id)
                   IN IF n.kind = "error" THEN Dash ELSE _note_label_or_dash(n.note)
              ELSE Dash>>]]

\* A hashrate at offset d from what the note requires at level rel, or 0.
HashrateNear(note, t, rel, d, pos) ==
    IF pos THEN Positive(HashrateFor(ZbitsOf(note), IF t > 0 THEN t ELSE 1, LevelOf(rel).k) + d)
    ELSE ZeroRate

PlannerTab1 ==
    Idle /\ \E note \in SampleNotes, t \in SecondsSet, rel \in LevelIds, d \in BandOffsets,
            pos \in BOOLEAN :
        Call("planner_tab1",
             [hps |-> HashrateNear(note, t, rel, d, pos), t |-> t, reliability |-> rel],
             planner_tab1(HashrateNear(note, t, rel, d, pos), t, LevelOf(rel)))

AppTab1 ==
    Idle /\ \E note \in SampleNotes, t \in SecondsSet, rel \in LevelIds, d \in BandOffsets,
            pos \in BOOLEAN :
        Call("app_tab1",
             [hps |-> HashrateNear(note, t, rel, d, pos), t |-> t, reliability |-> rel],
             app_tab1(HashrateNear(note, t, rel, d, pos), t, LevelOf(rel)))

BuildReliabilityTable ==
    Idle /\ \E note \in SampleNotes, t \in SecondsSet \cup BadSeconds, rel \in LevelIds,
            d \in BandOffsets, pos \in BOOLEAN :
        Call("_build_reliability_table",
             [hps |-> HashrateNear(note, t, rel, d, pos), t |-> t],
             _build_reliability_table(HashrateNear(note, t, rel, d, pos), t))

NextPlan == ComputeBestNote \/ PlannerTab1 \/ AppTab1 \/ BuildReliabilityTable

SpecPlan == InitIdle /\ [][NextPlan]_vars

(***************************************************************************)
(* Claims on tab1 of the planner.                                          *)
(***************************************************************************)
TopNote == Note(MAX_ZEROS, MAX_CENTZ)

\* The hashrate is too low for 1Z00 / reaches past the band of 256Z99, at
\* the multiplier k and the window t > 0.
TooLowFor(hps, t, k) == hps < HashrateFor(MIN_ZEROS * MILLI, t, k)
BeyondTop(hps, t, k) == hps >= HashrateFor(ZbitsOf(TopNote) + CENT_ZBIT_STEP, t, k)

\* The hashrate lies in the band of the note.
InBand(hps, t, k, note) ==
    /\ HashrateFor(ZbitsOf(note), t, k) <= hps
    /\ hps < HashrateFor(ZbitsOf(note) + CENT_ZBIT_STEP, t, k)

\* best is what the hashrate, the window t >= 1 and the level call for.
BestFor(hps, t, level, best) ==
    /\ (best.note = None) # (best.error = "None")
    /\ IF ~hps.pos THEN best.error = "Enter a hashrate greater than 0"
       ELSE IF TooLowFor(hps.log, t, level.k) THEN best.error = "HashrateTooLow"
       ELSE IF BeyondTop(hps.log, t, level.k) THEN best.error = "OutOfRange"
       ELSE /\ best.note # None
            /\ InRange(best.note.z, best.note.cents)
            /\ InBand(hps.log, t, level.k, best.note)

\* C13: _compute_best_note returns exactly one of (note, None) and
\* (None, message): the 'Enter a hashrate greater than 0' message for
\* hps <= 0, the error's text and no note for a SharenoteError.  The
\* Result section shows exactly one line: the success line only when a
\* note with z >= MIN_ZEROS was returned, otherwise one error line, never
\* a label together with an error.
C13_OneResultLine ==
    /\ op = "_compute_best_note" =>
          BestFor(args.hps, args.t, LevelOf(args.reliability), out)
    /\ op \in {"planner_tab1", "app_tab1"} =>
          /\ BestFor(args.hps, args.t, LevelOf(args.reliability), out.best)
          /\ Len(out.result) = 1
          /\ IF out.best.note # None /\ out.best.note.z >= MIN_ZEROS
             THEN out.result[1] = [kind |-> "st.success", label |-> Label(out.best.note)]
             ELSE out.result[1] = Shown("st.error", out.best.error)

C13_Witness ==
    /\ op = "planner_tab1" /\ args.hps.pos
    /\ out.best = [kind |-> "best", note |-> None, error |-> "HashrateTooLow"]
    /\ out.result = <<Shown("st.error", "HashrateTooLow")>>

\* The cell of row i is the label of the note whose band holds the
\* hashrate at that row's level, or the dash when there is none.
CellFor(i, hps, t, cell) ==
    LET k == ReliabilityLevels[i].k
    IN IF hps.pos /\ t > 0 /\ ~TooLowFor(hps.log, t, k) /\ ~BeyondTop(hps.log, t, k)
       THEN /\ IsNote(ensure_note(cell))
            /\ cell = Label(ensure_note(cell).note)
            /\ InBand(hps.log, t, k, ensure_note(cell).note)
       ELSE cell = Dash

\* One row per level in catalog order, each cell as CellFor has it, the
\* labels non-increasing in zbits down the table.
TableFor(hps, t, rows) ==
    /\ DOMAIN rows = DOMAIN ReliabilityLevels
    /\ \A i \in DOMAIN rows :
          /\ rows[i][1] = ReliabilityLevels[i].label
          /\ CellFor(i, hps, t, rows[i][2])
    /\ \A i, j \in DOMAIN rows :
          (i < j /\ rows[i][2] # Dash /\ rows[j][2] # Dash) =>
              ZbitsOf(ensure_note(rows[i][2]).note) >= ZbitsOf(ensure_note(rows[j][2]).note)

\* The table of the last call.
TableShown == IF op = "_build_reliability_table" THEN out ELSE out.table

\* C14 as claimed: one row per level in catalog order whatever the
\* inputs, the dash or the note's label in each cell, the labels
\* non-increasing in zbits down the table, and a dash never followed by a
\* label.
C14_DashNeverFollowedByLabel ==
    op \in {"_build_reliability_table", "planner_tab1", "app_tab1"} =>
        /\ TableFor(args.hps, args.t, TableShown)
        /\ \A i, j \in DOMAIN TableShown :
              (i < j /\ TableShown[i][2] = Dash) => TableShown[j][2] = Dash

\* C14 (amended): one row per level in catalog order whatever the inputs,
\* the dash or the note's label in each cell, the labels non-increasing
\* in zbits down the table; a dash is followed by a label only when the
\* dash stands for a hashrate beyond the band of 256Z99 at its level.
C14_ReliabilityTable ==
    op \in {"_build_reliability_table", "planner_tab1", "app_tab1"} =>
        /\ TableFor(args.hps, args.t, TableShown)
        /\ \A i, j \in DOMAIN TableShown :
              (i < j /\ TableShown[i][2] = Dash /\ TableShown[j][2] # Dash) =>
                  BeyondTop(args.hps.log, args.t, ReliabilityLevels[i].k)

C14_Witness ==
    /\ op = "_build_reliability_table" /\ args.hps.pos /\ args.t = 1
    /\ out[1][2] = Label(Note(MIN_ZEROS, 0))
    /\ \A i \in DOMAIN out : i > 1 => out[i][2] = Dash

\* The run is past the section "Arithmetic operations", entered with two
\* resolved notes.
PastArithmetic(s) ==
    /\ s.pc \in {"scaling", "division", "formats", "done", "raised"}
    /\ Resolved(s.note_a, s.stats_a) /\ Resolved(s.note_b, s.stats_b)

\* C15: in the Division panel divide_notes(A, B) yields zbits_A - zbits_B
\* and the panel shows 'A / B = <label>' exactly when that value is
\* non-negative and quantizes to a note within 1Z00..256Z99; in every
\* other case it shows 'A / B not possible' with 'failed to convert to
\* note'.
C15_DivisionPanel ==
    \A r \in Runs :
        (runs[r].pc # "off" /\ PastArithmetic(runs[r])) =>
            LET ratio == ZbitsOf(runs[r].note_a) - ZbitsOf(runs[r].note_b)
                panel == runs[r].shown["Division"]
            IN /\ panel.kind = "st.metric"
               /\ IF ratio >= 0 /\ \E q \in NearestCents(ratio) :
                                      InRange(CentsToNote(q).z, CentsToNote(q).cents)
                  THEN /\ panel.value = "A / B ="
                       /\ Quantized(ratio, OkNote(panel.note))
                  ELSE /\ panel.value = "A / B not possible"
                       /\ panel.delta = "failed to convert to note"

LabLimitMessages ==
    {"Z must stay between", "is below the lab minimum", "exceeds the lab maximum",
     "is not supported in this lab", "exceeds the lab cap"}

\* C16: every note the lab obtains from the library has 1 <= z <= 256, so
\* its out-of-limit branches are never taken: no panel shows the message
\* 'Z must stay between', a result below or above the lab bounds, or
\* 'exceeds the lab cap'; _resolve gives a note together with its stats
\* or neither, and the label panel shows an error exactly when it gave
\* neither.
C16_LabLimitsNeverHit ==
    \A r \in Runs : runs[r].pc # "off" =>
        /\ \A p \in Panels :
              /\ "message" \in DOMAIN runs[r].shown[p] =>
                    runs[r].shown[p].message \notin LabLimitMessages
              /\ ("note" \in DOMAIN runs[r].shown[p] /\ runs[r].shown[p].note # None) =>
                    InRange(runs[r].shown[p].note.z, runs[r].shown[p].note.cents)
        /\ (runs[r].note_a = None) = (runs[r].stats_a = None)
        /\ (runs[r].note_b = None) = (runs[r].stats_b = None)
        /\ runs[r].pc \notin {"set_reliability", "set_seconds", "panel_a"} =>
              IF runs[r].note_a = None
              THEN runs[r].shown["Sharenote A"].kind = "st.error"
              ELSE /\ runs[r].shown["Sharenote A"].kind = "st.metric"
                   /\ Label(runs[r].note_a) = Strip(runs[r].label_a)
                   /\ InRange(runs[r].note_a.z, runs[r].note_a.cents)

C16_Witness ==
    \E r \in Runs :
        /\ runs[r].pc = "done"
        /\ runs[r].shown["Scaled A"].kind = "st.metric"
        /\ runs[r].shown["Scaled A"].note.z = MAX_ZEROS
        /\ runs[r].shown["nBits"].kind = "st.success"
        /\ runs[r].shown["nBits"].note = Note(MAX_ZEROS, MAX_CENTZ)

====
